---- MODULE Spec2Model ----
(***************************************************************************)
(* Multi-transaction orchestration of pintoolx/jup-hedge.                  *)
(*                                                                         *)
(*   SpecSeq     the sequential executor, executeTransactionsSequentially  *)
(*               (src/src/utils/sequential-executor.ts)                    *)
(*   SpecBundle  the bundle executor, useAtomicSwapShort.execute           *)
(*               (src/unnamed/part_001) with the relay client              *)
(*               (src/unnamed/part_003) and the builders it calls          *)
(*   SpecSubmit  submitAndConfirmBundle from the await of sendBundle on,   *)
(*               with fairness: requests settle and timers fire            *)
(*   SpecHooks   a page with one of the three hooks: the bundle executor,  *)
(*               the sequential hook (src/unnamed/part_000) around the     *)
(*               sequential executor, or useJitoBundle.submitBundle        *)
(*                                                                         *)
(* An async function is one action per stretch of code between two awaits: *)
(* the action that resolves (or rejects) an awaited call runs the code up  *)
(* to the next await, where the next call is issued.                       *)
(***************************************************************************)
EXTENDS Integers, Sequences, FiniteSets, TLC

(***************************************************************************)
(* Bounds of the model.                                                    *)
(***************************************************************************)
\* the longest builder list handed to the sequential executor
MaxBuilders == 3

\* the writes a progress callback makes to the snapshots it is handed
MaxWrites == 1

\* the longest address-lookup list of a transaction
MaxLookups == 2

\* the calls of reset on a page with the bundle hook, and the calls of its
\* execute that are in flight at a time
MaxResets == 1
MaxCalls == 2

(***************************************************************************)
(* Values of the environment.                                              *)
(***************************************************************************)
\* blockhashes the RPC node or the aggregator may hand out
Blockhashes == {"hashA", "hashB"}

\* signatures sendRawTransaction may return
Signatures == {"sig1", "sig2"}

\* what an awaited call may throw: an Error object with a message, or a
\* value that is no Error (here a string, or a plain object)
Thrown ==
  { [kind |-> "Error", text |-> "oracle unavailable"],
    [kind |-> "string", text |-> "User rejected the request"],
    [kind |-> "object", text |-> ""] }

\* the err field of a confirmation or of a bundle status: null, or a payload
ErrPayloads == {"InsufficientFunds"}
NoErr == "null"

\* String(value) of JavaScript, on the thrown values of the model
StringOf(e) ==
  CASE e.kind = "Error"  -> "Error: " \o e.text
    [] e.kind = "string" -> e.text
    [] OTHER             -> "[object Object]"

\* error instanceof Error ? error.message : String(error)
ErrorMessage(e) == IF e.kind = "Error" THEN e.text ELSE StringOf(e)

\* JSON.stringify of an err payload (a JSON string value is quoted)
JsonStringify(p) == "\"" \o p \o "\""

\* a JavaScript value is truthy; of the err values only null is falsy
Truthy(err) == err # NoErr

(***************************************************************************)
(* Sequential executor: state.                                             *)
(***************************************************************************)
VARIABLES
  transactionBuilders, \* the builders' names, indexed from 0
  results,             \* the ledger: one TransactionProgress per builder, from 0
  i,                   \* the loop index
  seqPc,               \* the await the executor is suspended at
  tx,                  \* the transaction build() returned
  signedTx,            \* the transaction the signer returned
  signature,           \* the signature the broadcast returned
  calls,               \* calls to builders, signer and RPC and how each ended, in order
  snapshots,           \* the snapshots handed to onProgress, in order
  onProgress,          \* the callback: the writes it still makes to what it is handed
  fetched,             \* the blockhashes the builders obtained, in order
  seqResult            \* the returned SequentialExecutionResult

seqVars ==
  << transactionBuilders, results, i, seqPc, tx, signedTx, signature,
     calls, snapshots, onProgress, fetched, seqResult >>

(***************************************************************************)
(* Bundle executor: state.                                                 *)
(***************************************************************************)
VARIABLES
  wallet,             \* what useWallet() provides of publicKey and the signers
  bundlePc,           \* the await execute (or a function it awaits) is suspended at
  progress,           \* the hook's progress state
  progressHistory,    \* every value setProgress was given, in order
  hookResult,         \* the hook's result state
  isExecuting,        \* the hook's isExecuting state
  transactions,       \* the array handed to signAllTransactions
  driftClient,        \* the protocol client, or null
  sharedBlockhash,    \* the blockhash read from the swap transaction
  expectedJup,        \* the expected output of the swap
  swapTx,             \* the transactions as built
  shortTx,
  transferTx,
  tipTx,
  caught,             \* the exception the catch block is handling
  bundleCalls,        \* calls to builders, RPC, wallet and relay, in order
  signRequests,       \* the batches signAllTransactions was called with
  bundlesSent,        \* the batches sendBundle posted to the relay
  bundleId,           \* the id sendBundle returned
  elapsed,            \* Date.now() - startTime of waitForBundleConfirmation
  statuses,           \* what getBundleStatuses returned on this poll tick (empty
                      \* outside a tick)
  lastTick,           \* how the poll tick before this one ended
  execResult          \* the JitoBundleResult execute returned

hookVars == << progress, progressHistory, hookResult, isExecuting >>
builtVars == << sharedBlockhash, expectedJup, swapTx, shortTx, transferTx, tipTx >>
effectVars == << bundleCalls, signRequests, bundlesSent >>
pollVars == << bundleId, elapsed, statuses, lastTick >>

bundleVars ==
  << wallet, bundlePc, hookVars, transactions, driftClient, builtVars, caught,
     effectVars, pollVars, execResult >>

(***************************************************************************)
(* The sequential hook (src/unnamed/part_000) and useJitoBundle: state.    *)
(* Both read the wallet of the bundle executor's state: useWallet().       *)
(***************************************************************************)
VARIABLES
  seqHookPc,          \* the await the sequential execute is suspended at
  seqProgress,        \* the sequential hook's progress state
  seqHookResult,      \* the sequential hook's result state
  seqIsExecuting,     \* the sequential hook's isExecuting state
  seqDriftClient,     \* the protocol client of the sequential execute, or null
  seqCaught,          \* the exception its catch block is handling
  seqHookCalls,       \* its calls to the protocol client's functions, in order
  seqExecResult,      \* the SequentialExecutionResult it returned
  jitoPc,             \* the await submitBundle is suspended at
  jitoInput,          \* the transactions submitBundle was given
  jitoState,          \* the hook's OperationState
  jitoCalls,          \* its calls to builder, wallet and relay, in order
  jitoBatches,        \* the batches it had signed
  jitoResult          \* the JitoBundleResult submitBundle returned

seqHookVars ==
  << seqHookPc, seqProgress, seqHookResult, seqIsExecuting, seqDriftClient,
     seqCaught, seqHookCalls, seqExecResult >>

jitoVars == << jitoPc, jitoInput, jitoState, jitoCalls, jitoBatches, jitoResult >>

(***************************************************************************)
(* The caller of a hook, and the transaction given to isJitoCompatible.    *)
(***************************************************************************)
VARIABLES
  earlier,            \* the calls of the bundle execute still suspended at an
                      \* await when execute was called again
  seqShown,           \* how many snapshots the sequential hook's callback had
                      \* been given when reset was last called during the
                      \* executor's run (0 when it was not, and after the run)
  resetInFlight,      \* reset was called while a run was in flight
  candidate,          \* the transaction isJitoCompatible is given
  compatibility,      \* what isJitoCompatible returned
  verification,       \* what verifyTransactionBase64 returned
  market,             \* the prices and the answers the aggregator gives
  swapBuilds          \* the calls of buildJupiterSwapTransaction that ended

pageVars == << earlier, seqShown, resetInFlight, candidate, compatibility, verification,
                  market, swapBuilds >>

hooksVars == << seqHookVars, jitoVars, pageVars >>

vars == << seqVars, bundleVars, hooksVars >>

\* no value yet
None == [none |-> TRUE]

\* the signature of a transaction that has not been broadcast yet
Unsent == "unsent"

\* the name of the builder at an index
BuilderName(n) ==
  CASE n = 0 -> "Jupiter Swap"
    [] n = 1 -> "Drift Short"
    [] n = 2 -> "Token Transfer"
    [] OTHER -> "Extra"

\* builder lists of every length up to the bound
BuilderLists ==
  { [n \in 0..(len - 1) |-> BuilderName(n)] : len \in 0..MaxBuilders }

NumBuilders == Cardinality(DOMAIN transactionBuilders)

\* Spread that keeps the updates only
SpreadUpdatesOnly(entry, updates) == updates

\* { ...entry, ...updates }
Spread(entry, updates) ==
  [f \in DOMAIN entry \cup DOMAIN updates |->
     IF f \in DOMAIN updates THEN updates[f] ELSE entry[f]]

\* results[index] = { ...results[index], ...updates }
UpdatedLedger(ledger, index, updates) ==
  [ledger EXCEPT ![index] = Spread(ledger[index], updates)]

\* a callback that only reads what it is handed, and one that still writes
Observer == [writes |-> 0]
Writer == [writes |-> MaxWrites]

\* what a callback may do to the snapshot it is handed: nothing, a write to
\* the array (its last element removed), or a write to an entry of it
NoWrite == [op |-> "none"]
CallbackWrites(callback, snapshot) ==
  IF callback.writes = 0 THEN {NoWrite}
  ELSE {NoWrite, [op |-> "pop"]}
         \cup { [op |-> "status", index |-> n, status |-> "confirmed"] :
                  n \in DOMAIN snapshot }

\* [...results] copies the array and not its entries: a write to the
\* snapshot array leaves the ledger alone, a write to an entry of the
\* snapshot is a write to the entry of the ledger
LedgerAfterWrite(ledger, w) ==
  IF w.op = "status"
    THEN [ledger EXCEPT ![w.index] = Spread(ledger[w.index], [status |-> w.status])]
    ELSE ledger

\* UpdateProgress that replaces the entry and does not call onProgress
UpdateProgressSilent(index, updates) ==
  /\ results' = UpdatedLedger(results, index, updates)
  /\ UNCHANGED << snapshots, onProgress >>

\* updateProgress: the ledger entry is replaced, then onProgress gets a copy
\* of the array and returns
UpdateProgress(index, updates) ==
  LET ledger == UpdatedLedger(results, index, updates) IN
    /\ snapshots' = Append(snapshots, ledger)
    /\ \E w \in CallbackWrites(onProgress, ledger) :
         /\ results' = LedgerAfterWrite(ledger, w)
         /\ onProgress' = IF w = NoWrite THEN onProgress
                          ELSE [writes |-> onProgress.writes - 1]

\* the ledger after construction: every entry pending
InitialLedger(builders) ==
  [n \in DOMAIN builders |->
     [index |-> n, name |-> builders[n], status |-> "pending"]]

\* an entry of the call log: a call issued, or a call that returned or threw
Call(op, index, arg) == [op |-> op, ev |-> "call", index |-> index, arg |-> arg]
Return(op, index, val) == [op |-> op, ev |-> "return", index |-> index, val |-> val]
Throw(op, index, e) == [op |-> op, ev |-> "throw", index |-> index, val |-> e]

\* the wallet signs the transaction it is given
Signed(t) == [t EXCEPT !.signed = TRUE]

\* FailureResult with the 1-based position the log line prints
FailureResultOneBased(ledger, errorMsg, index) ==
  [success |-> FALSE, transactions |-> ledger, error |-> errorMsg,
   failedAtIndex |-> index + 1]

\* the failure result of the catch block and of the on-chain rejection
FailureResult(ledger, errorMsg, index) ==
  [success |-> FALSE, transactions |-> ledger, error |-> errorMsg,
   failedAtIndex |-> index]

SuccessResult(ledger) == [success |-> TRUE, transactions |-> ledger]

\* OnChainMessage without the payload the chain provided
OnChainMessageNoPayload(err) == "Transaction failed on-chain"

\* the message of an on-chain rejection
OnChainMessage(err) == "Transaction failed on-chain: " \o JsonStringify(err)

\* null and undefined of JavaScript
Null == "null"
Undefined == "undefined"

\* recentBlockhash ?? (await connection.getLatestBlockhash('confirmed')).blockhash
BlockhashOrFetch(recentBlockhash, fresh) ==
  IF recentBlockhash \notin {Null, Undefined} THEN recentBlockhash ELSE fresh

\* the RPC calls a builder with the ?? fallback makes
FetchIfMissing(recentBlockhash) ==
  IF recentBlockhash \notin {Null, Undefined} THEN << >> ELSE << "getLatestBlockhash" >>

\* buildDriftShortTransaction: a legacy message on the blockhash it is given
ShortBlockhash(recentBlockhash, fresh) == BlockhashOrFetch(recentBlockhash, fresh)

\* buildTokenTransferTransaction declares five parameters: the blockhash its
\* caller passes sixth is dropped and a fresh one is always fetched
TransferBlockhash(recentBlockhash, fresh) == fresh

\* the RPC calls of buildTokenTransferTransaction for its blockhash
TransferFetches(recentBlockhash) == << "getLatestBlockhash" >>

\* the recentBlockhash argument the sequential hook's builders pass on: the
\* swap builder has no such parameter, the short builder is called with
\* seven arguments and the transfer builder with five
HandedOverShared(name) == "hashA"

HandedOver(name) == Undefined

\* where a builder's blockhash comes from: the aggregator's answer for the
\* swap, the RPC node for the others
BlockhashSource(name, recentBlockhash) ==
  CASE name = "Jupiter Swap" -> << "aggregator" >>
    [] name = "Drift Short" -> FetchIfMissing(recentBlockhash)
    [] name = "Token Transfer" -> TransferFetches(recentBlockhash)
    [] OTHER -> << "getLatestBlockhash" >>

\* the blockhash of the transaction a builder returns, given the argument
\* passed on and the blockhash obtained during the build
BuiltBlockhash(name, recentBlockhash, fresh) ==
  CASE name = "Drift Short" -> ShortBlockhash(recentBlockhash, fresh)
    [] name = "Token Transfer" -> TransferBlockhash(recentBlockhash, fresh)
    [] OTHER -> fresh

\* the blockhashes obtained once build(index) returned: one more if the
\* builder obtained one, with the length of the call log at that time
FetchedAfterBuild(index, name, fresh) ==
  fetched \o [ n \in DOMAIN BlockhashSource(name, HandedOver(name)) |->
                 [index |-> index, blockhash |-> fresh, at |-> Len(calls),
                  from |-> BlockhashSource(name, HandedOver(name))[n]] ]

SeqInit ==
  /\ transactionBuilders \in BuilderLists
  /\ results = InitialLedger(transactionBuilders)
  /\ i = 0
  /\ seqPc = "loop"
  /\ tx = None
  /\ signedTx = None
  /\ signature = Unsent
  /\ calls = << >>
  /\ snapshots = << >>
  /\ fetched = << >>
  /\ seqResult = None

\* Catch storing a fixed text in the entry, the message only in the result
CatchGenericEntry(op, e) ==
  /\ UpdateProgress(i, [status |-> "failed", error |-> "Transaction failed"])
  /\ calls' = Append(calls, Throw(op, i, e))
  /\ seqResult' = FailureResult(results', ErrorMessage(e), i)
  /\ seqPc' = "returned"
  /\ UNCHANGED << bundleVars, hooksVars, transactionBuilders, fetched, i, tx, signedTx, signature >>

\* the catch block: the entry fails with the message and the run returns
Catch(op, e) ==
  /\ UpdateProgress(i, [status |-> "failed", error |-> ErrorMessage(e)])
  /\ calls' = Append(calls, Throw(op, i, e))
  /\ seqResult' = FailureResult(results', ErrorMessage(e), i)
  /\ seqPc' = "returned"
  /\ UNCHANGED << bundleVars, hooksVars, transactionBuilders, fetched, i, tx, signedTx, signature >>

\* the loop condition holds: the entry starts building and build() is called
LoopEnter ==
  /\ seqPc = "loop"
  /\ i < NumBuilders
  /\ UpdateProgress(i, [status |-> "building"])
  /\ calls' = Append(calls, Call("build", i, transactionBuilders[i]))
  /\ seqPc' = "build"
  /\ UNCHANGED << bundleVars, hooksVars, transactionBuilders, fetched, i, tx, signedTx, signature, seqResult >>

\* the loop condition fails: every builder was handled
LoopExit ==
  /\ seqPc = "loop"
  /\ ~(i < NumBuilders)
  /\ seqResult' = SuccessResult(results)
  /\ seqPc' = "returned"
  /\ UNCHANGED << bundleVars, hooksVars, transactionBuilders, fetched, results, i, tx, signedTx, signature,
                  calls, snapshots, onProgress >>

\* BuildResolves without the progress update before the signer is called
BuildResolvesNoSigningStatus ==
  /\ seqPc = "build"
  /\ \E h \in Blockhashes :
       /\ tx' = [builder |-> i,
                 recentBlockhash |->
                   BuiltBlockhash(transactionBuilders[i],
                                  HandedOver(transactionBuilders[i]), h),
                 signed |-> FALSE]
       /\ fetched' = FetchedAfterBuild(i, transactionBuilders[i], h)
  /\ calls' = calls \o << Return("build", i, tx'), Call("sign", i, tx') >>
  /\ seqPc' = "sign"
  /\ UNCHANGED << bundleVars, hooksVars, transactionBuilders, results, snapshots, onProgress,
                  i, signedTx, signature, seqResult >>

\* build() returns a transaction with a blockhash of its own: it is handed
\* to the signer
BuildResolves ==
  /\ seqPc = "build"
  /\ \E h \in Blockhashes :
       /\ tx' = [builder |-> i,
                 recentBlockhash |->
                   BuiltBlockhash(transactionBuilders[i],
                                  HandedOver(transactionBuilders[i]), h),
                 signed |-> FALSE]
       /\ fetched' = FetchedAfterBuild(i, transactionBuilders[i], h)
  /\ UpdateProgress(i, [status |-> "signing"])
  /\ calls' = calls \o << Return("build", i, tx'), Call("sign", i, tx') >>
  /\ seqPc' = "sign"
  /\ UNCHANGED << bundleVars, hooksVars, transactionBuilders, i, signedTx, signature, seqResult >>

BuildRejects ==
  /\ seqPc = "build"
  /\ \E e \in Thrown : Catch("build", e)

\* SignResolves broadcasting tx, the transaction as built, not signedTx
SignResolvesSendsTx ==
  /\ seqPc = "sign"
  /\ signedTx' = Signed(tx)
  /\ UpdateProgress(i, [status |-> "submitting"])
  /\ calls' = calls \o << Return("sign", i, signedTx'), Call("send", i, tx) >>
  /\ seqPc' = "send"
  /\ UNCHANGED << bundleVars, hooksVars, transactionBuilders, fetched, i, tx, signature, seqResult >>

\* the signer returns the signed transaction: it is broadcast
SignResolves ==
  /\ seqPc = "sign"
  /\ signedTx' = Signed(tx)
  /\ UpdateProgress(i, [status |-> "submitting"])
  /\ calls' = calls \o << Return("sign", i, signedTx'), Call("send", i, signedTx') >>
  /\ seqPc' = "send"
  /\ UNCHANGED << bundleVars, hooksVars, transactionBuilders, fetched, i, tx, signature, seqResult >>

SignRejects ==
  /\ seqPc = "sign"
  /\ \E e \in Thrown : Catch("sign", e)

\* SendResolves that does not await the confirmation before the next builder
SendResolvesNoWait ==
  /\ seqPc = "send"
  /\ \E s \in Signatures : signature' = s
  /\ UpdateProgress(i, [status |-> "confirming", signature |-> signature'])
  /\ calls' = Append(calls, Return("send", i, signature'))
  /\ i' = i + 1
  /\ seqPc' = "loop"
  /\ UNCHANGED << bundleVars, hooksVars, transactionBuilders, fetched, tx, signedTx, seqResult >>

\* SendResolves that leaves the signature out of the ledger
SendResolvesNoSignature ==
  /\ seqPc = "send"
  /\ \E s \in Signatures : signature' = s
  /\ UpdateProgress(i, [status |-> "confirming"])
  /\ calls' = calls \o << Return("send", i, signature'),
                          Call("getLatestBlockhash", i, "confirmed") >>
  /\ seqPc' = "blockhash"
  /\ UNCHANGED << bundleVars, hooksVars, transactionBuilders, fetched, i, tx, signedTx, seqResult >>

\* the broadcast returns a signature: a blockhash is fetched for the check
SendResolves ==
  /\ seqPc = "send"
  /\ \E s \in Signatures : signature' = s
  /\ UpdateProgress(i, [status |-> "confirming", signature |-> signature'])
  /\ calls' = calls \o << Return("send", i, signature'),
                          Call("getLatestBlockhash", i, "confirmed") >>
  /\ seqPc' = "blockhash"
  /\ UNCHANGED << bundleVars, hooksVars, transactionBuilders, fetched, i, tx, signedTx, seqResult >>

SendRejects ==
  /\ seqPc = "send"
  /\ \E e \in Thrown : Catch("send", e)

\* the blockhash arrives: the confirmation of the signature is awaited
BlockhashResolves ==
  /\ seqPc = "blockhash"
  /\ \E h \in Blockhashes :
       calls' = calls \o << Return("getLatestBlockhash", i, h),
                            Call("confirm", i, signature) >>
  /\ seqPc' = "confirm"
  /\ UNCHANGED << bundleVars, hooksVars, transactionBuilders, fetched, results, i, tx, signedTx, signature,
                  snapshots, onProgress, seqResult >>

BlockhashRejects ==
  /\ seqPc = "blockhash"
  /\ \E e \in Thrown : Catch("getLatestBlockhash", e)

\* the network confirmed the transaction: the loop moves to the next builder
ConfirmAccepts ==
  /\ seqPc = "confirm"
  /\ UpdateProgress(i, [status |-> "confirmed"])
  /\ calls' = Append(calls, Return("confirm", i, NoErr))
  /\ i' = i + 1
  /\ seqPc' = "loop"
  /\ UNCHANGED << bundleVars, hooksVars, transactionBuilders, fetched, tx, signedTx, signature, seqResult >>

\* ConfirmReportsErr without the return: the loop goes on after the failure
ConfirmReportsErrNoReturn ==
  /\ seqPc = "confirm"
  /\ \E err \in ErrPayloads :
       /\ Truthy(err)
       /\ UpdateProgress(i, [status |-> "failed", error |-> OnChainMessage(err)])
       /\ calls' = Append(calls, Return("confirm", i, err))
  /\ i' = i + 1
  /\ seqPc' = "loop"
  /\ UNCHANGED << bundleVars, hooksVars, transactionBuilders, fetched, tx, signedTx, signature, seqResult >>

\* the network rejected the transaction: confirmation.value.err is set
ConfirmReportsErr ==
  /\ seqPc = "confirm"
  /\ \E err \in ErrPayloads :
       /\ Truthy(err)
       /\ UpdateProgress(i, [status |-> "failed", error |-> OnChainMessage(err)])
       /\ calls' = Append(calls, Return("confirm", i, err))
       /\ seqResult' = FailureResult(results', OnChainMessage(err), i)
  /\ seqPc' = "returned"
  /\ UNCHANGED << bundleVars, hooksVars, transactionBuilders, fetched, i, tx, signedTx, signature >>

ConfirmRejects ==
  /\ seqPc = "confirm"
  /\ \E e \in Thrown : Catch("confirm", e)

NextSeq ==
  \/ LoopEnter
  \/ LoopExit
  \/ BuildResolves
  \/ BuildRejects
  \/ SignResolves
  \/ SignRejects
  \/ SendResolves
  \/ SendRejects
  \/ BlockhashResolves
  \/ BlockhashRejects
  \/ ConfirmAccepts
  \/ ConfirmReportsErr
  \/ ConfirmRejects

(***************************************************************************)
(* Bundle executor: values.                                                *)
(***************************************************************************)
\* the single-transaction size ceiling the relay path checks
SizeLimit == 1232

\* submitAndConfirmBundle's default timeoutMs, and the waits of the poll loop
TimeoutMs == 60000
PollIntervalMs == 2000
InflightPauseMs == 1000

\* the longest a request to the relay takes, in seconds
MaxRequestSeconds == 1

RequestDelays == { d * 1000 : d \in 0..MaxRequestSeconds }

\* serialized sizes: at the ceiling, and one byte over it
Sizes == {SizeLimit, SizeLimit + 1}

Capabilities == {"publicKey", "signAllTransactions", "signTransaction"}

ExpectedOutputs == {262}

BundleIds == {"bundleA", "bundleB"}


Tx(kind, hash, size, version, lookups) ==
  [kind |-> kind, recentBlockhash |-> hash, size |-> size,
   version |-> version, lookups |-> lookups, signed |-> FALSE]

\* the transactions the aggregator's swap endpoint may answer with
AggregatorTxs ==
  { Tx("swap", h, sz, vl[1], vl[2]) :
      h \in Blockhashes, sz \in Sizes,
      vl \in { <<"legacy", 0>>, <<"v0", 0>>, <<"v0", 1>> } }

\* buildJupiterSwapTransaction's own checks of the aggregator's answer: the
\* Error it throws, or None
SwapRejection(raw) ==
  IF raw.version = "v0" /\ raw.lookups > 0
    THEN [kind |-> "Error",
          text |-> "Jupiter returned a V0 transaction with Address Lookup Tables."]
    ELSE IF raw.size > SizeLimit
      THEN [kind |-> "Error", text |-> "Jupiter swap transaction too large"]
      ELSE None

\* createTipTransaction: a legacy message on the blockhash it is given
TipBlockhash(recentBlockhash, fresh) == BlockhashOrFetch(recentBlockhash, fresh)

\* signAllTransactions: the wallet signs every transaction of the batch
SignAll(batch) == [n \in DOMAIN batch |-> Signed(batch[n])]

\* transactions.push(transaction)
Push(array, t) == Append(array, t)

\* what execute has pushed once the transfer is built: the pushes of the
\* swap and of the short are commented out
PushedAfterTransfer(array, swap, short, transfer) == Push(array, transfer)

\* transaction.serialize(): the wire bytes, by their number and by what they
\* encode (every field of the transaction)
Serialize(t) == [length |-> t.size, wire |-> [f \in DOMAIN t \ {"size"} |-> t[f]]]

\* Buffer.from(bytes).toString('base64'): four characters for every three
\* bytes, the last group padded
ToBase64(bytes) ==
  [chars |-> 4 * ((bytes.length + 2) \div 3),
   padding |-> (3 - (bytes.length % 3)) % 3,
   wire |-> bytes.wire]

\* FromBase64 that takes the padding for data
FromBase64PaddingAsData(text) ==
  [length |-> 3 * (text.chars \div 4), wire |-> text.wire]

\* Buffer.from(text, 'base64'): three bytes for every four characters, less
\* the padding
FromBase64(text) ==
  [length |-> 3 * (text.chars \div 4) - text.padding, wire |-> text.wire]

\* sendBundle's encodedTransactions, the first of the params it posts
EncodedTransactions(batch) ==
  [n \in DOMAIN batch |-> ToBase64(Serialize(batch[n]))]

\* a JitoBundleResult
BundleFailure(errorMsg) == [bundleId |-> "", success |-> FALSE, error |-> errorMsg]

\* the statuses getBundleStatuses may return for the one id asked for
NullStatus == [null |-> TRUE]
\* err of a bundle status: null, the relay's {"Ok": null}, a payload, or a
\* payload that is the very text of the timeout message
BundleErrs == {NoErr, "OkNull", "Bundle confirmation timeout"} \cup ErrPayloads
BundleStatuses ==
  [confirmation_status : {"processed", "confirmed", "finalized"}, err : BundleErrs]
StatusArrays == { << >>, << NullStatus >> } \cup { << st >> : st \in BundleStatuses }

\* statuses[0]
FirstStatus(array) == IF Len(array) = 0 THEN [undefined |-> TRUE] ELSE array[1]

\* if (status)
StatusTruthy(st) == "confirmation_status" \in DOMAIN st

\* JsonOfErr writing a string payload without its quotes
JsonOfErrUnquoted(err) == err

\* JSON.stringify of the err of a bundle status
JsonOfErr(err) == IF err = "OkNull" THEN "{\"Ok\":null}" ELSE JsonStringify(err)

\* IsConfirmed taking any reported status for a confirmation
IsConfirmedAnyStatus(st) == StatusTruthy(st)

\* status.confirmation_status === 'confirmed' || ... === 'finalized'
IsConfirmed(st) ==
  StatusTruthy(st) /\ st.confirmation_status \in {"confirmed", "finalized"}

\* PollOutcome failing the call when the relay has no record of the bundle
PollOutcomeFailsUnknown(id, array) ==
  LET status == FirstStatus(array) IN
    IF IsConfirmed(status)
      THEN [bundleId |-> id, success |-> TRUE]
      ELSE IF StatusTruthy(status) /\ Truthy(status.err)
        THEN [bundleId |-> id, success |-> FALSE, error |-> JsonOfErr(status.err)]
        ELSE IF ~StatusTruthy(status)
          THEN [bundleId |-> id, success |-> FALSE, error |-> "Bundle not found"]
          ELSE None

\* PollOutcome reading err before confirmation_status
PollOutcomeErrFirst(id, array) ==
  LET status == FirstStatus(array) IN
    IF StatusTruthy(status) /\ Truthy(status.err)
      THEN [bundleId |-> id, success |-> FALSE, error |-> JsonOfErr(status.err)]
      ELSE IF IsConfirmed(status)
        THEN [bundleId |-> id, success |-> TRUE]
        ELSE None

\* the result one poll tick of waitForBundleConfirmation returns, or None
\* when the loop goes on
PollOutcome(id, array) ==
  LET status == FirstStatus(array) IN
    IF IsConfirmed(status)
      THEN [bundleId |-> id, success |-> TRUE]
      ELSE IF StatusTruthy(status) /\ Truthy(status.err)
        THEN [bundleId |-> id, success |-> FALSE, error |-> JsonOfErr(status.err)]
        ELSE None

\* what a status query of the poll loop may throw: a failed request, or the
\* Error getBundleStatuses and getBundleInflightStatuses make of data.error
StatusQueryErrors ==
  { [kind |-> "Error", text |-> "Network Error"],
    [kind |-> "Error", text |-> "getBundleStatuses failed: rate limited"] }

\* a tick that ended in the catch of the loop, with the error it logged
TickThrew(e) == [tick |-> "threw", error |-> e]

\* a tick that ended without a result: the relay had no record of the
\* bundle, or reported a status that is not terminal
TickWithout(status) ==
  IF StatusTruthy(status) THEN [tick |-> "not terminal"] ELSE [tick |-> "no record"]

\* TimeoutResult that drops the id of the bundle
TimeoutResultWithoutId(id) ==
  [bundleId |-> "", success |-> FALSE, error |-> "Bundle confirmation timeout"]

TimeoutResult(id) ==
  [bundleId |-> id, success |-> FALSE, error |-> "Bundle confirmation timeout"]

\* the index of the first transaction submitAndConfirmBundle's validation
\* loop rejects, or -1
FirstInvalid(batch) ==
  LET bad == { n \in DOMAIN batch :
                 \/ batch[n].size > SizeLimit
                 \/ batch[n].version = "v0" /\ batch[n].lookups > 0 }
  IN IF bad = {} THEN -1 ELSE CHOOSE n \in bad : \A m \in bad : n <= m

\* the failure the validation loop returns for the transaction at an index
\* (the array is indexed from 0 in the message)
ValidationFailure(batch, n) ==
  IF batch[n].size > SizeLimit
    THEN BundleFailure("Transaction " \o ToString(n - 1) \o " exceeds size limit")
    ELSE BundleFailure("Transaction " \o ToString(n - 1)
                       \o " uses Address Lookup Tables which Jito does not support")

(***************************************************************************)
(* Bundle executor: useAtomicSwapShort.execute.                            *)
(***************************************************************************)
WithExpected(step, message) ==
  [step |-> step, message |-> message, swapExpectedOutput |-> expectedJup']

\* setProgress, once for every value of the sequence
SetProgress(values) ==
  /\ progressHistory' = progressHistory \o values
  /\ progress' = IF values = << >> THEN progress ELSE values[Len(values)]

\* the state of the bundle hook before execute, at a position: idle once
\* useAtomicSwapShort() has rendered, unmounted on a page without it
BundleAt(w, pc) ==
  /\ wallet = w
  /\ bundlePc = pc
  /\ progress = [step |-> "idle", message |-> "Ready"]
  /\ progressHistory = << >>
  /\ hookResult = None
  /\ isExecuting = FALSE
  /\ transactions = << >>
  /\ driftClient = Null
  /\ sharedBlockhash = Undefined
  /\ expectedJup = 0
  /\ swapTx = None
  /\ shortTx = None
  /\ transferTx = None
  /\ tipTx = None
  /\ caught = None
  /\ bundleCalls = << >>
  /\ signRequests = << >>
  /\ bundlesSent = << >>
  /\ bundleId = Undefined
  /\ elapsed = 0
  /\ statuses = << >>
  /\ lastTick = None
  /\ execResult = None

\* the state after useAtomicSwapShort() has rendered, before execute
BundleConstructed(w) == BundleAt(w, "idle")

\* the sequential executor is not called in a bundle run
SeqNotCalled ==
  /\ transactionBuilders = << >>
  /\ results = << >>
  /\ i = 0
  /\ seqPc = "idle"
  /\ tx = None
  /\ signedTx = None
  /\ signature = Unsent
  /\ calls = << >>
  /\ snapshots = << >>
  /\ fetched = << >>
  /\ onProgress = Observer
  /\ seqResult = None

\* the state of the sequential hook before execute, at a position
SeqHookAt(pc) ==
  /\ seqHookPc = pc
  /\ seqProgress = [step |-> "idle", message |-> "Ready"]
  /\ seqHookResult = None
  /\ seqIsExecuting = FALSE
  /\ seqDriftClient = Null
  /\ seqCaught = None
  /\ seqHookCalls = << >>
  /\ seqExecResult = None

\* the state of useJitoBundle before submitBundle, at a position, with the
\* transactions the caller is about to hand over
JitoAt(pc, input) ==
  /\ jitoPc = pc
  /\ jitoInput = input
  /\ jitoState = [status |-> "idle"]
  /\ jitoCalls = << >>
  /\ jitoBatches = << >>
  /\ jitoResult = None

\* a page that renders neither the sequential hook nor useJitoBundle
HooksUnmounted == SeqHookAt("unmounted") /\ JitoAt("unmounted", << >>)

\* a caller that has called neither execute a second time nor reset, and
\* no call of isJitoCompatible
CallerIdle ==
  /\ earlier = << >>
  /\ seqShown = 0
  /\ resetInFlight = FALSE

\* no call of buildJupiterSwapTransaction outside the hooks
NoSwapCaller ==
  /\ market = None
  /\ swapBuilds = {}

NoCaller ==
  /\ CallerIdle
  /\ candidate = None
  /\ compatibility = None
  /\ verification = None
  /\ NoSwapCaller

BundleInit ==
  /\ \E w \in SUBSET Capabilities : BundleConstructed(w)
  /\ SeqNotCalled
  /\ HooksUnmounted
  /\ NoCaller

\* execute with the bundle result in hand: the step is success or error, the
\* result is stored, the run is over
Finish(bundleResult, before) ==
  /\ SetProgress(before \o
       << IF bundleResult.success
            THEN [step |-> "success",
                  message |-> "Bundle confirmed! ID: " \o bundleResult.bundleId,
                  swapExpectedOutput |-> expectedJup]
            ELSE [step |-> "error",
                  message |-> "Bundle failed: " \o bundleResult.error,
                  swapExpectedOutput |-> expectedJup] >>)
  /\ hookResult' = bundleResult
  /\ isExecuting' = FALSE
  /\ execResult' = bundleResult
  /\ bundlePc' = "returned"

\* the end of the catch block of execute
FinishCatch(e) ==
  /\ SetProgress(<< [step |-> "error", message |-> "Error: " \o ErrorMessage(e)] >>)
  /\ hookResult' = BundleFailure(ErrorMessage(e))
  /\ isExecuting' = FALSE
  /\ execResult' = BundleFailure(ErrorMessage(e))
  /\ bundlePc' = "returned"

\* the catch block of execute: a live protocol client is cleaned up first
CatchExecute(e) ==
  /\ IF driftClient # Null
       THEN /\ caught' = e
            /\ bundleCalls' = Append(bundleCalls, "cleanupDriftClient")
            /\ bundlePc' = "catchCleanup"
            /\ UNCHANGED << hookVars, execResult >>
       ELSE /\ FinishCatch(e)
            /\ UNCHANGED << caught, bundleCalls >>
  /\ UNCHANGED << seqVars, hooksVars, wallet, transactions, driftClient, builtVars,
                  signRequests, bundlesSent, pollVars >>

\* execute without a public key or a signer: the result is set and returned
ExecuteWithoutWallet ==
  /\ bundlePc = "idle"
  /\ wallet # Capabilities
  /\ hookResult' = BundleFailure("Wallet not connected")
  /\ execResult' = BundleFailure("Wallet not connected")
  /\ bundlePc' = "returned"
  /\ UNCHANGED << seqVars, hooksVars, wallet, progress, progressHistory, isExecuting,
                  transactions, driftClient, builtVars, caught, effectVars,
                  pollVars >>

\* execute with a wallet: the swap builder is called
ExecuteStart ==
  /\ bundlePc = "idle"
  /\ wallet = Capabilities
  /\ isExecuting' = TRUE
  /\ hookResult' = None
  /\ transactions' = << >>
  /\ driftClient' = Null
  /\ SetProgress(<< [step |-> "building_swap", message |-> "Building Jupiter swap"] >>)
  /\ bundleCalls' = Append(bundleCalls, "buildJupiterSwapTransaction")
  /\ bundlePc' = "swap"
  /\ UNCHANGED << seqVars, hooksVars, wallet, builtVars, caught, signRequests, bundlesSent,
                  pollVars, execResult >>

\* the swap is built: its blockhash becomes the shared one and the protocol
\* client is initialised
SwapResolves ==
  /\ bundlePc = "swap"
  /\ \E raw \in AggregatorTxs, out \in ExpectedOutputs :
       /\ SwapRejection(raw) = None
       /\ swapTx' = raw
       /\ expectedJup' = out
       /\ sharedBlockhash' = raw.recentBlockhash
  /\ SetProgress(<< WithExpected("building_swap", "Swap built"),
                    WithExpected("building_short", "Building Drift short") >>)
  /\ bundleCalls' = Append(bundleCalls, "initializeDriftClient")
  /\ bundlePc' = "initDrift"
  /\ UNCHANGED << seqVars, hooksVars, wallet, hookResult, isExecuting, transactions,
                  driftClient, shortTx, transferTx, tipTx, caught, signRequests,
                  bundlesSent, pollVars, execResult >>

\* the swap builder throws: a request failed, or its own checks refused the
\* aggregator's transaction
SwapRejects ==
  /\ bundlePc = "swap"
  /\ \E e \in Thrown \cup ({ SwapRejection(raw) : raw \in AggregatorTxs } \ {None}) :
       CatchExecute(e)

\* the protocol client is ready: the short builder is called with the
\* shared blockhash
InitDriftResolves ==
  /\ bundlePc = "initDrift"
  /\ driftClient' = "client"
  /\ bundleCalls' = Append(bundleCalls, "buildDriftShortTransaction")
  /\ bundlePc' = "short"
  /\ UNCHANGED << seqVars, hooksVars, wallet, hookVars, transactions, builtVars, caught,
                  signRequests, bundlesSent, pollVars, execResult >>

InitDriftRejects ==
  /\ bundlePc = "initDrift"
  /\ \E e \in Thrown : CatchExecute(e)

\* the short is built: the protocol client is cleaned up
ShortResolves ==
  /\ bundlePc = "short"
  /\ \E sz \in Sizes, fresh \in Blockhashes :
       shortTx' = Tx("short", ShortBlockhash(sharedBlockhash, fresh), sz, "legacy", 0)
  /\ bundleCalls' = bundleCalls \o FetchIfMissing(sharedBlockhash)
                      \o << "cleanupDriftClient" >>
  /\ bundlePc' = "cleanup"
  /\ UNCHANGED << seqVars, hooksVars, wallet, hookVars, transactions, driftClient,
                  sharedBlockhash, expectedJup, swapTx, transferTx, tipTx, caught,
                  signRequests, bundlesSent, pollVars, execResult >>

ShortRejects ==
  /\ bundlePc = "short"
  /\ \E e \in Thrown : CatchExecute(e)

\* the client is cleaned up: the transfer builder is called
CleanupResolves ==
  /\ bundlePc = "cleanup"
  /\ driftClient' = Null
  /\ SetProgress(<< [step |-> "building_short", message |-> "Short position built",
                     swapExpectedOutput |-> expectedJup],
                    [step |-> "building_transfer", message |-> "Building JUP transfer",
                     swapExpectedOutput |-> expectedJup] >>)
  /\ bundleCalls' = Append(bundleCalls, "buildTokenTransferTransaction")
  /\ bundlePc' = "transfer"
  /\ UNCHANGED << seqVars, hooksVars, wallet, hookResult, isExecuting, transactions,
                  builtVars, caught, signRequests, bundlesSent, pollVars,
                  execResult >>

CleanupRejects ==
  /\ bundlePc = "cleanup"
  /\ \E e \in Thrown : CatchExecute(e)

\* the cleanup awaited in the catch block is done: the error result is returned
CatchCleanupResolves ==
  /\ bundlePc = "catchCleanup"
  /\ FinishCatch(caught)
  /\ UNCHANGED << seqVars, hooksVars, wallet, transactions, driftClient, builtVars, caught,
                  effectVars, pollVars >>

\* the cleanup awaited in the catch block throws: execute rejects
CatchCleanupRejects ==
  /\ bundlePc = "catchCleanup"
  /\ \E e \in Thrown : caught' = e
  /\ bundlePc' = "threw"
  /\ UNCHANGED << seqVars, hooksVars, wallet, hookVars, transactions, driftClient, builtVars,
                  effectVars, pollVars, execResult >>

\* the transfer is built and pushed: the tip builder is called with the
\* shared blockhash
TransferResolves ==
  /\ bundlePc = "transfer"
  /\ \E sz \in Sizes, fresh \in Blockhashes :
       transferTx' = Tx("transfer", TransferBlockhash(sharedBlockhash, fresh),
                        sz, "legacy", 0)
  /\ transactions' = PushedAfterTransfer(transactions, swapTx, shortTx, transferTx')
  /\ SetProgress(<< [step |-> "building_transfer", message |-> "Transfer built",
                     swapExpectedOutput |-> expectedJup],
                    [step |-> "building_tip", message |-> "Building Jito tip",
                     swapExpectedOutput |-> expectedJup] >>)
  /\ bundleCalls' = bundleCalls \o TransferFetches(sharedBlockhash)
                      \o << "createTipTransaction" >>
  /\ bundlePc' = "tip"
  /\ UNCHANGED << seqVars, hooksVars, wallet, hookResult, isExecuting, driftClient,
                  sharedBlockhash, expectedJup, swapTx, shortTx, tipTx, caught,
                  signRequests, bundlesSent, pollVars, execResult >>

TransferRejects ==
  /\ bundlePc = "transfer"
  /\ \E e \in Thrown : CatchExecute(e)

\* the tip is built and pushed: the wallet is asked to sign the array
TipResolves ==
  /\ bundlePc = "tip"
  /\ \E fresh \in Blockhashes :
       tipTx' = Tx("tip", TipBlockhash(sharedBlockhash, fresh), SizeLimit, "legacy", 0)
  /\ transactions' = Push(transactions, tipTx')
  /\ SetProgress(<< [step |-> "signing", message |-> "Please sign transactions",
                     swapExpectedOutput |-> expectedJup] >>)
  /\ bundleCalls' = bundleCalls \o FetchIfMissing(sharedBlockhash)
                      \o << "signAllTransactions" >>
  /\ signRequests' = Append(signRequests, transactions')
  /\ bundlePc' = "signAll"
  /\ UNCHANGED << seqVars, hooksVars, wallet, hookResult, isExecuting, driftClient,
                  sharedBlockhash, expectedJup, swapTx, shortTx, transferTx,
                  caught, bundlesSent, pollVars, execResult >>

TipRejects ==
  /\ bundlePc = "tip"
  /\ \E e \in Thrown : CatchExecute(e)

Submitting ==
  [step |-> "submitting", message |-> "Submitting bundle to Jito Block Engine...",
   swapExpectedOutput |-> expectedJup]

\* the wallet signed, and submitAndConfirmBundle's validation loop refuses a
\* transaction: the failure is returned without a request to the relay
SignAllResolvesInvalid ==
  /\ bundlePc = "signAll"
  /\ LET signedTransactions == SignAll(transactions) IN
       /\ FirstInvalid(signedTransactions) # -1
       /\ Finish(ValidationFailure(signedTransactions,
                                   FirstInvalid(signedTransactions)),
                 << Submitting >>)
  /\ UNCHANGED << seqVars, hooksVars, wallet, transactions, driftClient, builtVars, caught,
                  effectVars, pollVars >>

\* the wallet signed and the signed array passes the validation loop:
\* sendBundle posts it to the relay
SignAllResolvesValid ==
  /\ bundlePc = "signAll"
  /\ LET signedTransactions == SignAll(transactions) IN
       /\ FirstInvalid(signedTransactions) = -1
       /\ bundlesSent' = Append(bundlesSent, signedTransactions)
  /\ SetProgress(<< Submitting >>)
  /\ bundleCalls' = Append(bundleCalls, "sendBundle")
  /\ bundlePc' = "sendBundle"
  /\ UNCHANGED << seqVars, hooksVars, wallet, hookResult, isExecuting, transactions,
                  driftClient, builtVars, caught, signRequests, pollVars,
                  execResult >>

\* SignAllRejects asking the wallet again instead of giving up
SignAllRejectsAsksAgain ==
  /\ bundlePc = "signAll"
  /\ bundleCalls' = Append(bundleCalls, "signAllTransactions")
  /\ signRequests' = Append(signRequests, transactions)
  /\ UNCHANGED << seqVars, hooksVars, wallet, bundlePc, hookVars, transactions, driftClient,
                  builtVars, caught, bundlesSent, pollVars, execResult >>

\* the wallet declines
SignAllRejects ==
  /\ bundlePc = "signAll"
  /\ \E e \in Thrown : CatchExecute(e)

\* the relay accepted the bundle: waitForBundleConfirmation starts its clock
\* and, the timeout not reached, asks for the bundle's status
SendBundleResolves ==
  /\ bundlePc = "sendBundle"
  /\ \E id \in BundleIds : bundleId' = id
  /\ elapsed' = 0
  /\ IF elapsed' < TimeoutMs
       THEN /\ bundlePc' = "getBundleStatuses"
            /\ UNCHANGED << hookVars, execResult >>
       ELSE Finish(TimeoutResult(bundleId'), << >>)
  /\ UNCHANGED << seqVars, hooksVars, wallet, transactions, driftClient, builtVars, caught,
                  effectVars, statuses, lastTick >>

\* SendBundleRejects posting the batch again after the relay refused it
SendBundleRejectsSendsAgain ==
  /\ bundlePc = "sendBundle"
  /\ bundlesSent' = Append(bundlesSent, bundlesSent[Len(bundlesSent)])
  /\ bundleCalls' = Append(bundleCalls, "sendBundle")
  /\ UNCHANGED << seqVars, hooksVars, wallet, bundlePc, hookVars, transactions, driftClient,
                  builtVars, caught, signRequests, pollVars, execResult >>

\* the relay answered with an error, or the request failed:
\* submitAndConfirmBundle catches it and returns a failure
SendBundleRejects ==
  /\ bundlePc = "sendBundle"
  /\ \E e \in Thrown \cup { [kind |-> "Error", text |-> "sendBundle failed: bundle rejected"] } :
       Finish(BundleFailure(ErrorMessage(e)), << >>)
  /\ UNCHANGED << seqVars, hooksVars, wallet, transactions, driftClient, builtVars, caught,
                  effectVars, pollVars >>

\* getBundleStatuses answered: a fixed pause before the inflight request
GetStatusesResolves ==
  /\ bundlePc = "getBundleStatuses"
  /\ \E array \in StatusArrays : statuses' = array
  /\ \E d \in RequestDelays : elapsed' = elapsed + d
  /\ bundlePc' = "pause"
  /\ UNCHANGED << seqVars, hooksVars, wallet, hookVars, transactions, driftClient, builtVars,
                  caught, effectVars, bundleId, lastTick, execResult >>

\* getBundleStatuses threw: the catch of the loop logs a warning and the
\* loop waits for the next tick
GetStatusesRejects ==
  /\ bundlePc = "getBundleStatuses"
  /\ \E d \in RequestDelays : elapsed' = elapsed + d
  /\ \E e \in StatusQueryErrors : lastTick' = TickThrew(e)
  /\ statuses' = << >>
  /\ bundlePc' = "interval"
  /\ UNCHANGED << seqVars, hooksVars, wallet, hookVars, transactions, driftClient, builtVars,
                  caught, effectVars, bundleId, execResult >>

\* the pause is over: the inflight status is asked for
PauseEnds ==
  /\ bundlePc = "pause"
  /\ elapsed' = elapsed + InflightPauseMs
  /\ bundlePc' = "inflight"
  /\ UNCHANGED << seqVars, hooksVars, wallet, hookVars, transactions, driftClient, builtVars,
                  caught, effectVars, bundleId, statuses, lastTick, execResult >>

\* the inflight request answered: statuses[0] decides the tick
InflightResolves ==
  /\ bundlePc = "inflight"
  /\ \E d \in RequestDelays : elapsed' = elapsed + d
  /\ IF PollOutcome(bundleId, statuses) # None
       THEN /\ Finish(PollOutcome(bundleId, statuses), << >>)
            /\ UNCHANGED << statuses, lastTick >>
       ELSE /\ lastTick' = TickWithout(FirstStatus(statuses))
            /\ statuses' = << >>
            /\ bundlePc' = "interval"
            /\ UNCHANGED << hookVars, execResult >>
  /\ UNCHANGED << seqVars, hooksVars, wallet, transactions, driftClient, builtVars, caught,
                  effectVars, bundleId >>

\* the inflight request threw: a warning, and the next tick
InflightRejects ==
  /\ bundlePc = "inflight"
  /\ \E d \in RequestDelays : elapsed' = elapsed + d
  /\ \E e \in StatusQueryErrors : lastTick' = TickThrew(e)
  /\ statuses' = << >>
  /\ bundlePc' = "interval"
  /\ UNCHANGED << seqVars, hooksVars, wallet, hookVars, transactions, driftClient, builtVars,
                  caught, effectVars, bundleId, execResult >>

\* IntervalEnds with a clock that stands still
IntervalEndsClockStopped ==
  /\ bundlePc = "interval"
  /\ elapsed' = elapsed
  /\ IF elapsed' < TimeoutMs
       THEN /\ bundlePc' = "getBundleStatuses"
            /\ UNCHANGED << hookVars, execResult >>
       ELSE Finish(TimeoutResult(bundleId), << >>)
  /\ UNCHANGED << seqVars, hooksVars, wallet, transactions, driftClient, builtVars, caught,
                  effectVars, bundleId, statuses, lastTick >>

\* the poll interval is over: the loop condition is read again
IntervalEnds ==
  /\ bundlePc = "interval"
  /\ elapsed' = elapsed + PollIntervalMs
  /\ IF elapsed' < TimeoutMs
       THEN /\ bundlePc' = "getBundleStatuses"
            /\ UNCHANGED << hookVars, execResult >>
       ELSE Finish(TimeoutResult(bundleId), << >>)
  /\ UNCHANGED << seqVars, hooksVars, wallet, transactions, driftClient, builtVars, caught,
                  effectVars, bundleId, statuses, lastTick >>

\* the awaits a bundle execute may be suspended at
AwaitPcs ==
  {"swap", "initDrift", "short", "cleanup", "catchCleanup", "transfer", "tip",
   "signAll", "sendBundle", "getBundleStatuses", "pause", "inflight", "interval"}

\* the resets of a page: the idle progress values setProgress was given
ResetsCalled ==
  Cardinality({ p \in DOMAIN progressHistory : progressHistory[p].step = "idle" })

\* reset of the bundle hook: the three states are set, nothing else
Reset ==
  /\ bundlePc # "unmounted"
  /\ ResetsCalled < MaxResets
  /\ SetProgress(<< [step |-> "idle", message |-> "Ready"] >>)
  /\ hookResult' = None
  /\ isExecuting' = FALSE
  /\ resetInFlight' = (resetInFlight \/ bundlePc \in AwaitPcs)
  /\ UNCHANGED << seqVars, seqHookVars, jitoVars, wallet, bundlePc, transactions,
                  driftClient, builtVars, caught, effectVars, pollVars, execResult,
                  earlier, seqShown, candidate, compatibility, verification,
                  market, swapBuilds >>

\* what a call of execute suspended at an await holds: its position and its
\* locals, with the number of calls made when the next call came
Suspended ==
  [pc |-> bundlePc, transactions |-> transactions, driftClient |-> driftClient,
   built |-> builtVars, caught |-> caught, poll |-> pollVars,
   calls |-> Len(bundleCalls)]

\* execute is called while an earlier call is suspended at an await: the
\* function has no check of isExecuting, so the new call runs like the
\* first, with locals of its own, up to the await of the swap builder; the
\* earlier call stays suspended
ExecuteAgain ==
  /\ bundlePc \in AwaitPcs
  /\ Len(earlier) + 1 < MaxCalls
  /\ wallet = Capabilities
  /\ earlier' = Append(earlier, Suspended)
  /\ isExecuting' = TRUE
  /\ hookResult' = None
  /\ transactions' = << >>
  /\ driftClient' = Null
  /\ sharedBlockhash' = Undefined
  /\ expectedJup' = 0
  /\ swapTx' = None
  /\ shortTx' = None
  /\ transferTx' = None
  /\ tipTx' = None
  /\ caught' = None
  /\ bundleId' = Undefined
  /\ elapsed' = 0
  /\ statuses' = << >>
  /\ lastTick' = None
  /\ SetProgress(<< [step |-> "building_swap", message |-> "Building Jupiter swap"] >>)
  /\ bundleCalls' = Append(bundleCalls, "buildJupiterSwapTransaction")
  /\ bundlePc' = "swap"
  /\ UNCHANGED << seqVars, seqHookVars, jitoVars, wallet, signRequests, bundlesSent,
                  execResult, seqShown, resetInFlight, candidate, compatibility, verification,
                  market, swapBuilds >>

\* execute from its call to the await of the relay's first status
NextBundleCall ==
  \/ ExecuteWithoutWallet
  \/ ExecuteStart
  \/ SwapResolves
  \/ SwapRejects
  \/ InitDriftResolves
  \/ InitDriftRejects
  \/ ShortResolves
  \/ ShortRejects
  \/ CleanupResolves
  \/ CleanupRejects
  \/ CatchCleanupResolves
  \/ CatchCleanupRejects
  \/ TransferResolves
  \/ TransferRejects
  \/ TipResolves
  \/ TipRejects
  \/ SignAllResolvesInvalid
  \/ SignAllResolvesValid
  \/ SignAllRejects
  \/ SendBundleResolves
  \/ SendBundleRejects

NextBundle ==
  \/ ExecuteWithoutWallet
  \/ ExecuteStart
  \/ SwapResolves
  \/ SwapRejects
  \/ InitDriftResolves
  \/ InitDriftRejects
  \/ ShortResolves
  \/ ShortRejects
  \/ CleanupResolves
  \/ CleanupRejects
  \/ CatchCleanupResolves
  \/ CatchCleanupRejects
  \/ TransferResolves
  \/ TransferRejects
  \/ TipResolves
  \/ TipRejects
  \/ SignAllResolvesInvalid
  \/ SignAllResolvesValid
  \/ SignAllRejects
  \/ SendBundleResolves
  \/ SendBundleRejects
  \/ GetStatusesResolves
  \/ GetStatusesRejects
  \/ PauseEnds
  \/ InflightResolves
  \/ InflightRejects
  \/ IntervalEnds


(***************************************************************************)
(* The sequential hook: useAtomicSwapShort.execute of src/unnamed/part_000.*)
(***************************************************************************)
\* the SequentialExecutionResult of the wallet check and of the catch block
SequentialFailure(errorMsg) ==
  [success |-> FALSE, transactions |-> << >>, error |-> errorMsg]

\* the three builders execute hands to the executor
HookBuilders == [n \in 0..2 |-> BuilderName(n)]

\* txProgress.findIndex(t => t.status !== 'confirmed' && t.status !== 'pending')
CurrentIndex(ledger) ==
  LET active == { n \in DOMAIN ledger :
                    ledger[n].status \notin {"confirmed", "pending"} }
  IN IF active = {} THEN -1 ELSE CHOOSE n \in active : \A m \in active : n <= m

\* the step the callback shows for the transaction at an index
StepOf(index) ==
  CASE index = 0 -> "executing_swap"
    [] index = 1 -> "executing_short"
    [] index = 2 -> "executing_transfer"
    [] OTHER     -> "executing_swap"

\* getSwapMessage, getShortMessage, getTransferMessage (amounts left out)
MessageOf(index, status) ==
  LET subject == CASE index = 0 -> "swap"
                   [] index = 1 -> "short position"
                   [] index = 2 -> "transfer"
                   [] OTHER     -> ""
  IN IF index \notin 0..2 THEN "Processing..."
     ELSE CASE status = "building"   -> "Building " \o subject \o "..."
            [] status = "signing"    -> "Please sign " \o subject \o " transaction in your wallet..."
            [] status = "submitting" -> "Submitting " \o subject \o "..."
            [] status = "confirming" -> "Confirming " \o subject \o " transaction..."
            [] OTHER                 -> "Processing " \o subject \o "..."

\* the onProgress callback of execute: the progress after one snapshot
MappedProgress(ledger, before) ==
  LET c == CurrentIndex(ledger) IN
    IF c = -1 THEN before
    ELSE [step |-> StepOf(ledger[c].index),
          message |-> MessageOf(ledger[c].index, ledger[c].status),
          currentTransaction |-> ledger[c].index + 1,
          totalTransactions |-> 3]

\* the progress the callback has left after a sequence of snapshots
RECURSIVE CallbackProgress(_, _)
CallbackProgress(snaps, before) ==
  IF snaps = << >> THEN before
  ELSE CallbackProgress(Tail(snaps), MappedProgress(Head(snaps), before))

\* the snapshots the callback was given after reset was last called (all of
\* them when it was not)
SnapshotsSinceReset == SubSeq(snapshots, seqShown + 1, Len(snapshots))

\* the progress a caller sees: while the executor runs, what its callback set
SeqProgressSeen ==
  IF seqHookPc = "executor" THEN CallbackProgress(SnapshotsSinceReset, seqProgress)
  ELSE seqProgress

\* the end of the catch block of the sequential execute
SeqFinishCatch(e) ==
  /\ seqProgress' = [step |-> "error", message |-> "Error: " \o ErrorMessage(e)]
  /\ seqHookResult' = SequentialFailure(ErrorMessage(e))
  /\ seqIsExecuting' = FALSE
  /\ seqExecResult' = SequentialFailure(ErrorMessage(e))
  /\ seqHookPc' = "returned"

\* the catch block of the sequential execute
SeqCatchExecute(e) ==
  /\ IF seqDriftClient # Null
       THEN /\ seqCaught' = e
            /\ seqHookCalls' = Append(seqHookCalls, "cleanupDriftClient")
            /\ seqHookPc' = "catchCleanup"
            /\ UNCHANGED << seqProgress, seqHookResult, seqIsExecuting, seqExecResult >>
       ELSE /\ SeqFinishCatch(e)
            /\ UNCHANGED << seqCaught, seqHookCalls >>
  /\ UNCHANGED << seqVars, bundleVars, jitoVars, pageVars, seqDriftClient >>

\* execute without a public key or a signer
SeqExecuteWithoutWallet ==
  /\ seqHookPc = "idle"
  /\ wallet # Capabilities
  /\ seqHookResult' = SequentialFailure("Wallet not connected")
  /\ seqExecResult' = SequentialFailure("Wallet not connected")
  /\ seqHookPc' = "returned"
  /\ UNCHANGED << seqVars, bundleVars, jitoVars, pageVars, seqProgress, seqIsExecuting,
                  seqDriftClient, seqCaught, seqHookCalls >>

\* execute with a wallet: the protocol client is initialised first
SeqExecuteStart ==
  /\ seqHookPc = "idle"
  /\ wallet = Capabilities
  /\ seqIsExecuting' = TRUE
  /\ seqHookResult' = None
  /\ seqDriftClient' = Null
  /\ seqProgress' = [step |-> "initializing", message |-> "Initializing Drift client..."]
  /\ seqHookCalls' = Append(seqHookCalls, "initializeDriftClient")
  /\ seqHookPc' = "initDrift"
  /\ UNCHANGED << seqVars, bundleVars, jitoVars, pageVars, seqCaught, seqExecResult >>

\* the client is ready: the executor is called with the three builders
SeqInitDriftResolves ==
  /\ seqHookPc = "initDrift"
  /\ seqDriftClient' = "client"
  /\ transactionBuilders' = HookBuilders
  /\ results' = InitialLedger(HookBuilders)
  /\ i' = 0
  /\ seqPc' = "loop"
  /\ tx' = None
  /\ signedTx' = None
  /\ signature' = Unsent
  /\ calls' = << >>
  /\ snapshots' = << >>
  /\ fetched' = << >>
  /\ onProgress' = Observer
  /\ seqResult' = None
  /\ seqHookPc' = "executor"
  /\ UNCHANGED << bundleVars, jitoVars, pageVars, seqProgress, seqHookResult, seqIsExecuting,
                  seqCaught, seqHookCalls, seqExecResult >>

SeqInitDriftRejects ==
  /\ seqHookPc = "initDrift"
  /\ \E e \in Thrown : SeqCatchExecute(e)

\* the executor returned its result: the protocol client is cleaned up
SeqExecutorReturns ==
  /\ seqHookPc = "executor"
  /\ seqPc = "returned"
  /\ seqProgress' = CallbackProgress(SnapshotsSinceReset, seqProgress)
  /\ seqShown' = 0
  /\ seqHookCalls' = Append(seqHookCalls, "cleanupDriftClient")
  /\ seqHookPc' = "cleanup"
  /\ UNCHANGED << seqVars, bundleVars, jitoVars, earlier, resetInFlight, candidate,
                  compatibility, verification, market, swapBuilds, seqHookResult, seqIsExecuting,
                  seqDriftClient, seqCaught, seqExecResult >>

\* the client is cleaned up: the step is success or error, the result is
\* stored and returned
SeqCleanupResolves ==
  /\ seqHookPc = "cleanup"
  /\ seqDriftClient' = Null
  /\ seqProgress' =
       IF seqResult.success
         THEN [step |-> "success", message |-> "All transactions confirmed!",
               currentTransaction |-> 3, totalTransactions |-> 3]
         ELSE LET failedTx == seqResult.transactions[seqResult.failedAtIndex] IN
                [step |-> "error",
                 message |-> "Failed at " \o failedTx.name \o ": " \o failedTx.error]
  /\ seqHookResult' = seqResult
  /\ seqIsExecuting' = FALSE
  /\ seqExecResult' = seqResult
  /\ seqHookPc' = "returned"
  /\ UNCHANGED << seqVars, bundleVars, jitoVars, pageVars, seqCaught, seqHookCalls >>

\* the cleanup throws: the catch block finds the client still set
SeqCleanupRejects ==
  /\ seqHookPc = "cleanup"
  /\ \E e \in Thrown : SeqCatchExecute(e)

SeqCatchCleanupResolves ==
  /\ seqHookPc = "catchCleanup"
  /\ SeqFinishCatch(seqCaught)
  /\ UNCHANGED << seqVars, bundleVars, jitoVars, pageVars, seqDriftClient, seqCaught,
                  seqHookCalls >>

\* the cleanup awaited in the catch block throws: execute rejects
SeqCatchCleanupRejects ==
  /\ seqHookPc = "catchCleanup"
  /\ \E e \in Thrown : seqCaught' = e
  /\ seqHookPc' = "threw"
  /\ UNCHANGED << seqVars, bundleVars, jitoVars, pageVars, seqProgress, seqHookResult,
                  seqIsExecuting, seqDriftClient, seqHookCalls, seqExecResult >>

\* the awaits a sequential execute may be suspended at
SeqAwaitPcs == {"initDrift", "executor", "cleanup", "catchCleanup"}

\* SeqReset that ends the run in flight
SeqResetAborts ==
  /\ seqHookPc # "unmounted"
  /\ seqProgress' = [step |-> "idle", message |-> "Ready"]
  /\ seqHookResult' = None
  /\ seqIsExecuting' = FALSE
  /\ seqHookPc' = IF seqHookPc \in SeqAwaitPcs THEN "threw" ELSE seqHookPc
  /\ resetInFlight' = (resetInFlight \/ seqHookPc \in SeqAwaitPcs)
  /\ UNCHANGED << seqVars, bundleVars, jitoVars, seqDriftClient, seqCaught, seqHookCalls,
                  seqExecResult, earlier, seqShown, candidate, compatibility, verification,
                  market, swapBuilds >>

\* reset of the sequential hook: the three states are set, nothing else
SeqReset ==
  /\ seqHookPc # "unmounted"
  /\ seqProgress' = [step |-> "idle", message |-> "Ready"]
  /\ seqHookResult' = None
  /\ seqIsExecuting' = FALSE
  /\ seqShown' = IF seqHookPc = "executor" THEN Len(snapshots) ELSE seqShown
  /\ resetInFlight' = (resetInFlight \/ seqHookPc \in SeqAwaitPcs)
  /\ UNCHANGED << seqVars, bundleVars, jitoVars, seqHookPc, seqDriftClient, seqCaught,
                  seqHookCalls, seqExecResult, earlier, candidate, compatibility, verification,
                  market, swapBuilds >>

NextSeqHook ==
  \/ SeqExecuteWithoutWallet
  \/ SeqExecuteStart
  \/ SeqInitDriftResolves
  \/ SeqInitDriftRejects
  \/ NextSeq
  \/ SeqExecutorReturns
  \/ SeqCleanupResolves
  \/ SeqCleanupRejects
  \/ SeqCatchCleanupResolves
  \/ SeqCatchCleanupRejects

(***************************************************************************)
(* useJitoBundle.submitBundle with the relay client of src/src/utils.      *)
(***************************************************************************)
\* the transactions a caller hands to submitBundle
JitoInputs ==
  { << >>,
    << Tx("swap", "hashA", SizeLimit, "legacy", 0) >>,
    << Tx("swap", "hashA", SizeLimit, "legacy", 0),
       Tx("swap", "hashB", SizeLimit + 1, "v0", 1) >> }

\* JitoReady asking for the public key only
JitoReadyKeyOnly(w) == "publicKey" \in w

\* publicKey && signAllTransactions
JitoReady(w) == {"publicKey", "signAllTransactions"} \subseteq w

\* setState({ status: 'error', error: result.error, data: result })
JitoErrorState(result) == [status |-> "error", error |-> result.error, data |-> result]

\* the number a value converts to in a comparison: NaN for the connection
NumberOf(v) == IF v = "connection" THEN "NaN" ELSE v

\* Date.now() - startTime < timeoutMs: false when timeoutMs converts to NaN
LoopRuns(el, timeoutMs) ==
  NumberOf(timeoutMs) # "NaN" /\ el < NumberOf(timeoutMs)

\* waitForBundleConfirmation as submitAndConfirmBundle(signed, connection)
\* calls it, with the connection where timeoutMs is expected: no tick runs
\* and the timeout result is returned (None: the loop is entered)
JitoWait(id, timeoutMs) ==
  IF LoopRuns(0, timeoutMs) THEN None ELSE TimeoutResult(id)

\* submitBundle stores the result it got and returns it
JitoFinish(result) ==
  /\ jitoState' = IF result.success THEN [status |-> "success", data |-> result]
                                    ELSE JitoErrorState(result)
  /\ jitoResult' = result
  /\ jitoPc' = "returned"

\* the catch block of submitBundle
JitoCatch(e) ==
  /\ JitoFinish(BundleFailure(ErrorMessage(e)))
  /\ UNCHANGED << seqVars, bundleVars, seqHookVars, pageVars, jitoInput, jitoCalls, jitoBatches >>

\* submitBundle without a public key or signAllTransactions
JitoSubmitWithoutWallet ==
  /\ jitoPc = "idle"
  /\ ~JitoReady(wallet)
  /\ JitoFinish(BundleFailure("Wallet not connected"))
  /\ UNCHANGED << seqVars, bundleVars, seqHookVars, pageVars, jitoInput, jitoCalls, jitoBatches >>

\* submitBundle with a wallet: createTipTransaction fetches a blockhash
JitoSubmitStart ==
  /\ jitoPc = "idle"
  /\ JitoReady(wallet)
  /\ jitoState' = [status |-> "loading"]
  /\ jitoCalls' = jitoCalls \o << "createTipTransaction", "getLatestBlockhash" >>
  /\ jitoPc' = "tip"
  /\ UNCHANGED << seqVars, bundleVars, seqHookVars, pageVars, jitoInput, jitoBatches, jitoResult >>

\* the tip is built on the fetched blockhash and appended: the wallet is
\* asked to sign the batch
JitoTipResolves ==
  /\ jitoPc = "tip"
  /\ \E h \in Blockhashes :
       jitoBatches' = Append(jitoBatches,
                             Append(jitoInput, Tx("tip", h, SizeLimit, "v0", 0)))
  /\ jitoCalls' = Append(jitoCalls, "signAllTransactions")
  /\ jitoPc' = "sign"
  /\ UNCHANGED << seqVars, bundleVars, seqHookVars, pageVars, jitoInput, jitoState, jitoResult >>

JitoTipRejects ==
  /\ jitoPc = "tip"
  /\ \E e \in Thrown : JitoCatch(e)

\* the wallet signed: submitAndConfirmBundle posts the batch
JitoSignResolves ==
  /\ jitoPc = "sign"
  /\ jitoBatches' = Append(jitoBatches, SignAll(jitoBatches[Len(jitoBatches)]))
  /\ jitoCalls' = Append(jitoCalls, "sendBundle")
  /\ jitoPc' = "send"
  /\ UNCHANGED << seqVars, bundleVars, seqHookVars, pageVars, jitoInput, jitoState, jitoResult >>

JitoSignRejects ==
  /\ jitoPc = "sign"
  /\ \E e \in Thrown : JitoCatch(e)

\* the relay accepted the bundle: the wait is called with (bundleId, connection)
JitoSendResolves ==
  /\ jitoPc = "send"
  /\ \E id \in BundleIds :
       /\ JitoWait(id, "connection") # None
       /\ JitoFinish(JitoWait(id, "connection"))
  /\ UNCHANGED << seqVars, bundleVars, seqHookVars, pageVars, jitoInput, jitoCalls, jitoBatches >>

\* sendBundle threw: submitAndConfirmBundle returns the failure
JitoSendRejects ==
  /\ jitoPc = "send"
  /\ \E e \in Thrown \cup { [kind |-> "Error", text |-> "sendBundle failed: bundle rejected"] } :
       JitoFinish(BundleFailure(ErrorMessage(e)))
  /\ UNCHANGED << seqVars, bundleVars, seqHookVars, pageVars, jitoInput, jitoCalls, jitoBatches >>

NextJito ==
  \/ JitoSubmitWithoutWallet
  \/ JitoSubmitStart
  \/ JitoTipResolves
  \/ JitoTipRejects
  \/ JitoSignResolves
  \/ JitoSignRejects
  \/ JitoSendResolves
  \/ JitoSendRejects

(***************************************************************************)
(* isJitoCompatible (src/unnamed/part_003).                                *)
(***************************************************************************)
\* the transactions isJitoCompatible is asked about: below, at and over the
\* size ceiling, legacy or version 0 with and without lookups, with as many
\* signatures as the message requires or one more, and some whose
\* serialize() throws
Candidates ==
  { Spread(Tx(k, h, sz, vl[1], vl[2]),
           [signatures |-> s, numRequiredSignatures |-> 1, serializable |-> b]) :
      k \in {"swap", "tip"}, h \in Blockhashes,
      sz \in {SizeLimit - 1, SizeLimit, SizeLimit + 1},
      vl \in { <<"legacy", 0>> } \cup { <<"v0", l>> : l \in 0..MaxLookups },
      s \in 1..2, b \in BOOLEAN }

\* what serialize() throws for a transaction it cannot encode
SerializeError == [kind |-> "Error", text |-> "failed to serialize"]

\* VersionedTransaction.deserialize: the Error it throws for bytes that hold
\* another number of signatures than the message requires, or None
DeserializeError(bytes) ==
  IF bytes.wire.signatures # bytes.wire.numRequiredSignatures
    THEN [kind |-> "Error",
          text |-> "Expected signatures length to be equal to the number of required signatures"]
    ELSE None

\* the result of the catch block
SerializationFailure(e) ==
  [compatible |-> FALSE, reason |-> "Serialization error: " \o StringOf(e)]

\* IsJitoCompatible looking at the lookups before the size
IsJitoCompatibleLookupsFirst(transaction) ==
  IF ~transaction.serializable THEN SerializationFailure(SerializeError)
  ELSE
    LET serialized == Serialize(transaction) IN
      IF transaction.version = "v0" /\ transaction.lookups > 0
        THEN [compatible |-> FALSE, reason |-> "Transaction uses Address Lookup Tables"]
        ELSE IF serialized.length > SizeLimit
          THEN [compatible |-> FALSE,
                reason |-> "Transaction size (" \o ToString(serialized.length)
                             \o " bytes) exceeds 1232 byte limit"]
          ELSE [compatible |-> TRUE]

\* isJitoCompatible: the size, then the lookups, then the base64 round trip,
\* all inside one try block
IsJitoCompatible(transaction) ==
  IF ~transaction.serializable THEN SerializationFailure(SerializeError)
  ELSE
    LET serialized == Serialize(transaction) IN
      IF serialized.length > SizeLimit
        THEN [compatible |-> FALSE,
              reason |-> "Transaction size (" \o ToString(serialized.length)
                           \o " bytes) exceeds 1232 byte limit"]
        ELSE IF transaction.version = "v0" /\ transaction.lookups > 0
          THEN [compatible |-> FALSE, reason |-> "Transaction uses Address Lookup Tables"]
          ELSE
            LET base64 == ToBase64(serialized)
                decoded == FromBase64(base64)
            IN IF DeserializeError(decoded) # None
                 THEN SerializationFailure(DeserializeError(decoded))
                 ELSE [compatible |-> TRUE]

\* isJitoCompatible is called with the transaction and returns
CheckCompatible ==
  /\ candidate # None
  /\ compatibility = None
  /\ compatibility' = IsJitoCompatible(candidate)
  /\ UNCHANGED << seqVars, bundleVars, seqHookVars, jitoVars, earlier, seqShown,
                  resetInFlight, candidate, verification,
                  market, swapBuilds >>

(***************************************************************************)
(* verifyTransactionBase64 (src/src/utils/jupiter_swap.ts).                *)
(***************************************************************************)
\* VersionedTransaction.deserialize of bytes it accepts: the transaction the
\* bytes encode, of the size the bytes have
Deserialize(bytes) == Spread(bytes.wire, [size |-> bytes.length])

\* transaction.message.serialize(): the bytes of the message, which are the
\* transaction's without the count of signatures and the signatures
MessageBytes(t) ==
  [length |-> t.size - (1 + 64 * t.signatures),
   wire |-> [f \in DOMAIN t \ {"size", "signatures", "signed"} |-> t[f]]]

\* the result of the catch block
VerificationFailure == [isValid |-> FALSE, base64 |-> "", byteLength |-> 0]

\* verifyTransactionBase64: serialize, encode, decode, deserialize, compare
\* the message bytes, all inside one try block
VerifyTransactionBase64(transaction) ==
  IF ~transaction.serializable THEN VerificationFailure
  ELSE
    LET serialized == Serialize(transaction)
        base64 == ToBase64(serialized)
        decoded == FromBase64(base64)
    IN IF DeserializeError(decoded) # None THEN VerificationFailure
       ELSE
         LET restored == Deserialize(decoded) IN
           [isValid |-> MessageBytes(restored) = MessageBytes(transaction),
            base64 |-> base64,
            byteLength |-> serialized.length]

\* verifyTransactionBase64 is called with the transaction and returns
VerifyBase64 ==
  /\ candidate # None
  /\ verification = None
  /\ verification' = VerifyTransactionBase64(candidate)
  /\ UNCHANGED << seqVars, bundleVars, seqHookVars, jitoVars, earlier, seqShown,
                  resetInFlight, candidate, compatibility, market, swapBuilds >>

(***************************************************************************)
(* buildJupiterSwapTransaction (src/src/utils/jupiter_swap.ts).  Amounts   *)
(* and prices are fractions num/den; base units are integers.              *)
(***************************************************************************)
MINIMUM_JUP_OUTPUT == 250

\* BUFFER_PERCENTAGE = 1.05
BUFFER_PERCENTAGE == [num |-> 21, den |-> 20]

TOKEN_ADDRESS ==
  [SOL |-> "So11111111111111111111111111111111111111112",
   USDC |-> "EPjFWdd5AufqSSqeM2qN1xzybapC8G4wEGGkZwyTDt1v",
   JUP |-> "JUPyiwrYJFskUPiHa7hkeR8VUtAeFoSYbKedZNsDvCN"]

\* the aggregator answering null
NullAnswer == [null |-> TRUE]

\* the amounts execute is called with, in SOL: 0.1, 0.5 and 1
Amounts == { [num |-> 1, den |-> 10], [num |-> 1, den |-> 2], [num |-> 1, den |-> 1] }

\* slippageBps: the default, and another
SlippageChoices == {50, 100}

\* what the price endpoint answers: a status that is not ok, a body that
\* lacks a price, or the prices of JUP (0.40, 0.50) and SOL (150, 200) in USD
PriceAnswers ==
  { [ok |-> FALSE, status |-> 500], [ok |-> TRUE, data |-> NullAnswer] }
    \cup { [ok |-> TRUE, data |-> [JUP |-> j, SOL |-> s]] :
             j \in { [num |-> 2, den |-> 5], [num |-> 1, den |-> 2] },
             s \in { [num |-> 150, den |-> 1], [num |-> 200, den |-> 1] } }

\* the prices, what the quote endpoint pays in lamports per base unit of the
\* output token (0: it has no route and answers null), and the transaction
\* the swap endpoint builds (or null)
Markets ==
  [priceApi : PriceAnswers, rate : {0, 3, 4}, raw : AggregatorTxs \cup {NullAnswer}]

\* an Error thrown with the message
Rejected(text) == [threw |-> [kind |-> "Error", text |-> text]]

\* getJupiterPrices: the prices, or what it throws
GetJupiterPrices(response) ==
  IF ~response.ok
    THEN Rejected("Jupiter Price API error: " \o ToString(response.status))
    ELSE IF response.data = NullAnswer
      THEN Rejected("Missing price data from Jupiter API")
      ELSE [jupPrice |-> response.data.JUP, solPrice |-> response.data.SOL]

\* calculateRequiredSolForMinimumJup, given the prices:
\* (MINIMUM_JUP_OUTPUT * BUFFER_PERCENTAGE * jupPrice) / solPrice
CalculateRequiredSolForMinimumJup(prices) ==
  LET targetJupAmount ==
        [num |-> MINIMUM_JUP_OUTPUT * BUFFER_PERCENTAGE.num, den |-> BUFFER_PERCENTAGE.den]
  IN [solAmount |->
        [num |-> targetJupAmount.num * prices.jupPrice.num * prices.solPrice.den,
         den |-> targetJupAmount.den * prices.jupPrice.den * prices.solPrice.num],
      jupPrice |-> prices.jupPrice,
      solPrice |-> prices.solPrice,
      targetJupAmount |-> targetJupAmount,
      minimumJupOutput |-> MINIMUM_JUP_OUTPUT]

GetTokenDecimals(token) ==
  CASE token = "SOL" -> 9
    [] token = "USDC" -> 6
    [] token = "JUP" -> 6
    [] OTHER -> 9

\* Math.floor(num / den * 10^decimals), a digit at a time
RECURSIVE FloorScaled(_, _, _)
FloorScaled(num, den, decimals) ==
  IF decimals = 0 THEN num \div den
  ELSE (num \div den) * 10^decimals + FloorScaled((num % den) * 10, den, decimals - 1)

\* toBaseUnits
ToBaseUnits(amount, token) == FloorScaled(amount.num, amount.den, GetTokenDecimals(token))

\* fromBaseUnits
FromBaseUnits(amount, token) == [num |-> amount, den |-> 10^GetTokenDecimals(token)]

\* the amount that is quoted, were it the caller's
QuotedAmountOfCaller(amount, calculatedSolAmount) == amount

\* the amount buildJupiterSwapTransaction hands to getJupiterQuote
QuotedAmount(amount, calculatedSolAmount) == calculatedSolAmount

\* the request getJupiterQuote sends to quoteGet
QuoteRequest(inputToken, outputToken, amount, slippageBps) ==
  [inputMint |-> TOKEN_ADDRESS[inputToken],
   outputMint |-> TOKEN_ADDRESS[outputToken],
   amount |-> ToBaseUnits(amount, inputToken),
   slippageBps |-> slippageBps,
   maxAccounts |-> 15,
   onlyDirectRoutes |-> TRUE]

\* the quote endpoint: a route for the amount asked, or null
QuoteGet(m, request) ==
  IF m.rate = 0 THEN NullAnswer
  ELSE [inputMint |-> request.inputMint,
        outputMint |-> request.outputMint,
        inAmount |-> request.amount,
        outAmount |-> request.amount \div m.rate,
        slippageBps |-> request.slippageBps]

\* the swap endpoint: the base64 of a transaction that swaps what the quote
\* says for the payer, or null
SwapPost(m, swapRequest) ==
  IF m.raw = NullAnswer THEN NullAnswer
  ELSE [swapTransaction |->
          ToBase64(Serialize(Spread(m.raw,
            [payer |-> swapRequest.userPublicKey,
             inAmount |-> swapRequest.quoteResponse.inAmount,
             outAmount |-> swapRequest.quoteResponse.outAmount,
             slippageBps |-> swapRequest.quoteResponse.slippageBps])))]

\* buildJupiterSwapTransaction: the requests it sent to quoteGet, and what it
\* returned or threw
BuildJupiterSwapTransaction(m, userPublicKey, inputToken, outputToken, amount, slippageBps) ==
  IF inputToken \notin DOMAIN TOKEN_ADDRESS
    THEN [quoteRequests |-> << >>, outcome |-> Rejected("Unknown input token: " \o inputToken)]
  ELSE IF outputToken \notin DOMAIN TOKEN_ADDRESS
    THEN [quoteRequests |-> << >>, outcome |-> Rejected("Unknown output token: " \o outputToken)]
  ELSE
    LET prices == GetJupiterPrices(m.priceApi) IN
    IF "threw" \in DOMAIN prices THEN [quoteRequests |-> << >>, outcome |-> prices]
    ELSE
      LET calculatedSolAmount == CalculateRequiredSolForMinimumJup(prices).solAmount
          request == QuoteRequest(inputToken, outputToken,
                                  QuotedAmount(amount, calculatedSolAmount), slippageBps)
          quote == QuoteGet(m, request)
      IN IF quote = NullAnswer
           THEN [quoteRequests |-> << request >>,
                 outcome |-> Rejected("Failed to get Jupiter quote")]
         ELSE
           LET swapResult == SwapPost(m, [quoteResponse |-> quote,
                                          userPublicKey |-> userPublicKey,
                                          wrapAndUnwrapSol |-> TRUE,
                                          asLegacyTransaction |-> TRUE])
           IN IF swapResult = NullAnswer
                THEN [quoteRequests |-> << request >>,
                      outcome |-> Rejected("Failed to get Jupiter swap transaction")]
              ELSE
                LET transactionBytes == FromBase64(swapResult.swapTransaction)
                    transaction == Deserialize(transactionBytes)
                IN IF SwapRejection(transaction) # None
                     THEN [quoteRequests |-> << request >>,
                           outcome |-> [threw |-> SwapRejection(transaction)]]
                     ELSE [quoteRequests |-> << request >>,
                           outcome |-> [transaction |-> transaction,
                                        expectedOutput |->
                                          FromBaseUnits(quote.outAmount, outputToken),
                                        quote |-> quote,
                                        calculatedSolAmount |-> calculatedSolAmount]]

\* buildJupiterSwapTransaction is called for SOL into JUP, as the hooks call
\* it, and ends
BuildSwap ==
  /\ market # None
  /\ \E amount \in Amounts, slippageBps \in SlippageChoices :
       swapBuilds' = swapBuilds \cup
         { Spread([amount |-> amount, slippageBps |-> slippageBps],
                  BuildJupiterSwapTransaction(market, "walletKey", "SOL", "JUP",
                                              amount, slippageBps)) }
  /\ UNCHANGED << seqVars, bundleVars, seqHookVars, jitoVars, earlier, seqShown,
                  resetInFlight, candidate, compatibility, verification, market >>

(***************************************************************************)
(* Specifications.                                                         *)
(***************************************************************************)
\* a call of isJitoCompatible, on a page that renders none of the hooks
CompatInit ==
  /\ SeqNotCalled
  /\ BundleAt(Capabilities, "unmounted")
  /\ HooksUnmounted
  /\ CallerIdle
  /\ candidate \in Candidates
  /\ compatibility = None
  /\ verification = None
  /\ NoSwapCaller

SpecCompat == CompatInit /\ [][CheckCompatible \/ VerifyBase64]_vars

\* calls of buildJupiterSwapTransaction against one market, on a page that
\* renders none of the hooks
SwapInit ==
  /\ SeqNotCalled
  /\ BundleAt(Capabilities, "unmounted")
  /\ HooksUnmounted
  /\ CallerIdle
  /\ candidate = None
  /\ compatibility = None
  /\ verification = None
  /\ market \in Markets
  /\ swapBuilds = {}

SpecSwap == SwapInit /\ [][BuildSwap]_vars

\* a run of the sequential executor; the bundle hook is rendered and idle
InitSeq ==
  /\ SeqInit
  /\ onProgress = Observer
  /\ BundleConstructed(Capabilities)
  /\ HooksUnmounted
  /\ NoCaller

SpecSeq == InitSeq /\ [][NextSeq]_vars

\* a run of the sequential executor with a callback that writes to the
\* snapshots it is handed
InitCallback ==
  /\ SeqInit
  /\ onProgress = Writer
  /\ BundleConstructed(Capabilities)
  /\ HooksUnmounted
  /\ NoCaller

SpecCallback == InitCallback /\ [][NextSeq]_vars

\* a run of the bundle executor
SpecBundle == BundleInit /\ [][NextBundle]_vars

\* a page with one of the three hooks, whose operation is invoked once
HooksInit ==
  /\ SeqNotCalled
  /\ NoCaller
  /\ \E w \in SUBSET Capabilities :
       \/ BundleConstructed(w) /\ HooksUnmounted
       \/ BundleAt(w, "unmounted") /\ SeqHookAt("idle") /\ JitoAt("unmounted", << >>)
       \/ /\ BundleAt(w, "unmounted")
          /\ SeqHookAt("unmounted")
          /\ \E input \in JitoInputs : JitoAt("idle", input)

NextHooks == NextBundle \/ NextSeqHook \/ NextJito

SpecHooks == HooksInit /\ [][NextHooks]_vars

\* a page with the bundle hook or the sequential hook
PageInit ==
  /\ SeqNotCalled
  /\ NoCaller
  /\ \E w \in SUBSET Capabilities :
       \/ BundleConstructed(w) /\ HooksUnmounted
       \/ BundleAt(w, "unmounted") /\ SeqHookAt("idle") /\ JitoAt("unmounted", << >>)

\* the steps of a run: an awaited call settles
RunStep == NextBundleCall \/ NextSeqHook

\* a page whose caller may call reset at any time
SpecReset == PageInit /\ [][RunStep \/ Reset \/ SeqReset]_vars

\* a page with the bundle hook whose caller may call execute again while a
\* call is in flight
SpecCalls == BundleInit /\ [][NextBundleCall \/ ExecuteAgain]_vars

\* execute suspended in submitAndConfirmBundle at the await of sendBundle,
\* after a run whose builders all returned and whose batch the wallet signed
SubmitCalled ==
  /\ SeqNotCalled
  /\ HooksUnmounted
  /\ NoCaller
  /\ wallet = Capabilities
  /\ bundlePc = "sendBundle"
  /\ swapTx = Tx("swap", "hashA", SizeLimit, "legacy", 0)
  /\ expectedJup = 262
  /\ sharedBlockhash = swapTx.recentBlockhash
  /\ shortTx = Tx("short", ShortBlockhash(sharedBlockhash, "hashB"), SizeLimit, "legacy", 0)
  /\ transferTx = Tx("transfer", TransferBlockhash(sharedBlockhash, "hashB"),
                     SizeLimit, "legacy", 0)
  /\ tipTx = Tx("tip", TipBlockhash(sharedBlockhash, "hashB"), SizeLimit, "legacy", 0)
  /\ transactions = Push(PushedAfterTransfer(<< >>, swapTx, shortTx, transferTx), tipTx)
  /\ driftClient = Null
  /\ caught = None
  /\ bundleCalls =
       << "buildJupiterSwapTransaction", "initializeDriftClient",
          "buildDriftShortTransaction", "cleanupDriftClient",
          "buildTokenTransferTransaction" >>
       \o TransferFetches(sharedBlockhash)
       \o << "createTipTransaction", "signAllTransactions", "sendBundle" >>
  /\ signRequests = << transactions >>
  /\ bundlesSent = << SignAll(transactions) >>
  /\ progressHistory =
       << [step |-> "building_swap", message |-> "Building Jupiter swap"],
          [step |-> "building_swap", message |-> "Swap built",
           swapExpectedOutput |-> expectedJup],
          [step |-> "building_short", message |-> "Building Drift short",
           swapExpectedOutput |-> expectedJup],
          [step |-> "building_short", message |-> "Short position built",
           swapExpectedOutput |-> expectedJup],
          [step |-> "building_transfer", message |-> "Building JUP transfer",
           swapExpectedOutput |-> expectedJup],
          [step |-> "building_transfer", message |-> "Transfer built",
           swapExpectedOutput |-> expectedJup],
          [step |-> "building_tip", message |-> "Building Jito tip",
           swapExpectedOutput |-> expectedJup],
          [step |-> "signing", message |-> "Please sign transactions",
           swapExpectedOutput |-> expectedJup],
          Submitting >>
  /\ progress = Submitting
  /\ hookResult = None
  /\ isExecuting = TRUE
  /\ bundleId = Undefined
  /\ elapsed = 0
  /\ statuses = << >>
  /\ lastTick = None
  /\ execResult = None

\* the steps of submitAndConfirmBundle from the await of sendBundle on
NextSubmit ==
  \/ SendBundleResolves
  \/ SendBundleRejects
  \/ GetStatusesResolves
  \/ GetStatusesRejects
  \/ PauseEnds
  \/ InflightResolves
  \/ InflightRejects
  \/ IntervalEnds

\* submitAndConfirmBundle with a relay whose every request settles and with
\* timers that fire
SpecSubmit == SubmitCalled /\ [][NextSubmit]_vars /\ WF_vars(NextSubmit)

(***************************************************************************)
(* Sequential executor: properties.                                        *)
(***************************************************************************)
\* an entry of the call log that is a failure: a call that threw, or a
\* confirmation that returned an err
IsFailure(c) ==
  \/ c.ev = "throw"
  \/ c.op = "confirm" /\ c.ev = "return" /\ Truthy(c.val)

FailurePositions == { p \in DOMAIN calls : IsFailure(calls[p]) }

FirstFailure ==
  calls[CHOOSE p \in FailurePositions : \A q \in FailurePositions : p <= q]

BuildInvoked(n) ==
  \E p \in DOMAIN calls :
    calls[p].op = "build" /\ calls[p].ev = "call" /\ calls[p].index = n

Returned == seqPc = "returned"

\* C1: when the first failure (a throw of build, sign, broadcast or
\* confirmation, or an on-chain rejection) happens at index k, the run has
\* returned success=false with failedAtIndex=k, the entries before k are
\* confirmed, entry k is failed, the entries after k are pending and their
\* builders were never invoked.
C1_FailFast ==
  FailurePositions # {} =>
    LET k == FirstFailure.index IN
      /\ Returned
      /\ k \in DOMAIN transactionBuilders
      /\ seqResult.success = FALSE
      /\ seqResult.failedAtIndex = k
      /\ \A n \in DOMAIN seqResult.transactions :
           /\ n < k => seqResult.transactions[n].status = "confirmed"
           /\ n = k => seqResult.transactions[n].status = "failed"
           /\ n > k => /\ seqResult.transactions[n].status = "pending"
                       /\ ~BuildInvoked(n)

\* C1 witness: a run of three builders that failed at the middle one
C1_Witness ==
  /\ Returned
  /\ NumBuilders = 3
  /\ FailurePositions # {}
  /\ FirstFailure.index = 1
  /\ seqResult.failedAtIndex = 1

NotConfirmed(ledger) == { n \in DOMAIN ledger : ledger[n].status # "confirmed" }

\* C2: the result has success=true exactly when every entry of the returned
\* ledger is confirmed; a successful result has neither error nor
\* failedAtIndex; a failed result has failedAtIndex, the index of the first
\* entry that is not confirmed.
C2_SuccessIffAllConfirmed ==
  Returned =>
    LET bad == NotConfirmed(seqResult.transactions) IN
      /\ seqResult.success <=> bad = {}
      /\ seqResult.success =>
           /\ "error" \notin DOMAIN seqResult
           /\ "failedAtIndex" \notin DOMAIN seqResult
      /\ ~seqResult.success =>
           /\ "failedAtIndex" \in DOMAIN seqResult
           /\ seqResult.failedAtIndex \in bad
           /\ \A n \in bad : seqResult.failedAtIndex <= n

\* C2 witness: a run of three builders that returned success
C2_Witness ==
  /\ Returned
  /\ NumBuilders = 3
  /\ seqResult.success

IsCall(c, op) == c.op = op /\ c.ev = "call"

ReturnedBefore(p, op, index, val) ==
  \E q \in 1..(p - 1) : calls[q] = Return(op, index, val)

\* C3: the signer is called with the transaction build(i) returned, after it
\* returned; the broadcast is issued with the signed transaction the signer
\* returned, after it returned; the confirmation check is issued for the
\* signature the broadcast returned, after it returned.
C3_BuildSignSendConfirmOrder ==
  \A p \in DOMAIN calls :
    LET c == calls[p] IN
      /\ IsCall(c, "sign") =>
           /\ ReturnedBefore(p, "build", c.index, c.arg)
           /\ c.arg.builder = c.index
      /\ IsCall(c, "send") =>
           /\ ReturnedBefore(p, "sign", c.index, c.arg)
           /\ c.arg.signed
           /\ c.arg.builder = c.index
      /\ IsCall(c, "confirm") =>
           /\ ReturnedBefore(p, "send", c.index, c.arg)
           /\ \E q \in 1..(p - 1) : IsCall(calls[q], "send") /\ calls[q].index = c.index

\* C3 witness: the confirmation of the second builder's transaction is awaited
C3_Witness ==
  \E p \in DOMAIN calls : IsCall(calls[p], "confirm") /\ calls[p].index = 1

\* the moves of a status the type's order allows
StatusMoves ==
  { <<"pending", "building">>, <<"building", "signing">>,
    <<"signing", "submitting">>, <<"submitting", "confirming">>,
    <<"confirming", "confirmed">>,
    <<"building", "failed">>, <<"signing", "failed">>,
    <<"submitting", "failed">>, <<"confirming", "failed">> }

\* the ledger as the caller sees it over a run: at construction, in every
\* snapshot, and in the result
LedgerHistory ==
  << InitialLedger(transactionBuilders) >> \o snapshots
    \o (IF Returned THEN << seqResult.transactions >> ELSE << >>)

ActiveStatuses == {"building", "signing", "submitting", "confirming"}

\* C5: at most one entry is being built, signed, submitted or confirmed at a
\* time, and build(n) has been invoked only when every entry before n is
\* confirmed.
C5_OneIndexAtATime ==
  /\ Cardinality({ n \in DOMAIN results : results[n].status \in ActiveStatuses }) <= 1
  /\ \A n \in DOMAIN results :
       BuildInvoked(n) => \A m \in 0..(n - 1) : results[m].status = "confirmed"

\* C5 witness: the third builder is invoked
C5_Witness == BuildInvoked(2) /\ results[2].status = "building"

(***************************************************************************)
(* Bundle executor: properties.                                            *)
(***************************************************************************)
BundleReturned == bundlePc = "returned"

BundleSteps ==
  {"idle", "building_swap", "building_short", "building_transfer",
   "building_tip", "signing", "submitting", "confirming", "success", "error"}

\* C6: a returned result is either success=true with a non-empty bundleId,
\* the id the relay gave, returned on a poll on which the relay reported the
\* bundle confirmed or finalized, or success=false with an error; results and
\* progress values carry no per-transaction confirmation state, and the step
\* success is shown only with a successful result.
C6_BundleAllOrNothing ==
  /\ BundleReturned =>
       /\ DOMAIN execResult \subseteq {"bundleId", "success", "error"}
       /\ \/ /\ execResult.success
             /\ execResult.bundleId # ""
             /\ execResult.bundleId = bundleId
             /\ Len(statuses) > 0
             /\ "confirmation_status" \in DOMAIN statuses[1]
             /\ statuses[1].confirmation_status \in {"confirmed", "finalized"}
          \/ /\ ~execResult.success
             /\ "error" \in DOMAIN execResult
  /\ \A p \in DOMAIN progressHistory :
       /\ DOMAIN progressHistory[p] \subseteq {"step", "message", "swapExpectedOutput"}
       /\ progressHistory[p].step \in BundleSteps
       /\ progressHistory[p].step = "success" => BundleReturned /\ execResult.success

\* C6 witness: a run returned success for a bundle the relay reported finalized
C6_Witness ==
  /\ BundleReturned
  /\ execResult.success
  /\ statuses[1].confirmation_status = "finalized"
  /\ progress.step = "success"

BuiltAfterSwap == { t \in {shortTx, transferTx, tipTx} : t # None }

\* C7 (as claimed): the short, the transfer and the tip each carry the
\* recentBlockhash read from the swap transaction, and no builder fetches a
\* blockhash of its own.
C7_SharedBlockhash_Claim ==
  /\ \A t \in BuiltAfterSwap : t.recentBlockhash = swapTx.recentBlockhash
  /\ \A p \in DOMAIN bundleCalls : bundleCalls[p] # "getLatestBlockhash"

\* C8 (as claimed): the batch handed to signAllTransactions, and then posted
\* to the relay, is the swap, the short, the transfer and the tip, in the
\* order they were built.
C8_BatchIsEveryBuiltTx_Claim ==
  /\ \A p \in DOMAIN signRequests :
       signRequests[p] = << swapTx, shortTx, transferTx, tipTx >>
  /\ \A p \in DOMAIN bundlesSent :
       bundlesSent[p] = [n \in 1..4 |->
                           [<< swapTx, shortTx, transferTx, tipTx >>[n]
                              EXCEPT !.signed = TRUE]]

Incompatible(t) == t.size > SizeLimit \/ (t.version = "v0" /\ t.lookups > 0)

BuiltTxs == { t \in {swapTx, shortTx, transferTx, tipTx} : t # None }

\* C9 (as claimed): when a built transaction is over 1232 bytes or references
\* a lookup table, signAllTransactions is never called and the run ends with
\* success=false and an error.
C9_AbortBeforeSigning_Claim ==
  (\E t \in BuiltTxs : Incompatible(t)) =>
    /\ signRequests = << >>
    /\ BundleReturned => ~execResult.success /\ "error" \in DOMAIN execResult

CallPositions(op) == { p \in DOMAIN bundleCalls : bundleCalls[p] = op }

DependentBuilders ==
  {"buildDriftShortTransaction", "buildTokenTransferTransaction",
   "createTipTransaction"}

AllBuilders == DependentBuilders \cup {"buildJupiterSwapTransaction"}

\* C10: a dependent builder is invoked only after the swap is built and its
\* blockhash read; signAllTransactions is called at most once, only when the
\* four builders have returned, and once in every run that built all four;
\* sendBundle is called only after signAllTransactions returned; a run that
\* failed while building called neither.
C10_BuildSignSubmitOrder ==
  /\ \A p \in DOMAIN bundleCalls :
       bundleCalls[p] \in DependentBuilders =>
         /\ swapTx # None
         /\ sharedBlockhash = swapTx.recentBlockhash
         /\ \E q \in 1..(p - 1) : bundleCalls[q] = "buildJupiterSwapTransaction"
  /\ Cardinality(CallPositions("signAllTransactions")) <= 1
  /\ Len(signRequests) = Cardinality(CallPositions("signAllTransactions"))
  /\ \A p \in CallPositions("signAllTransactions") :
       /\ \A t \in {swapTx, shortTx, transferTx, tipTx} : t # None
       /\ \A b \in AllBuilders : \E q \in 1..(p - 1) : bundleCalls[q] = b
       /\ \A q \in DOMAIN bundleCalls : bundleCalls[q] \in AllBuilders => q < p
  /\ tipTx # None => Cardinality(CallPositions("signAllTransactions")) = 1
  /\ Len(bundlesSent) = Cardinality(CallPositions("sendBundle"))
  /\ Len(bundlesSent) <= 1
  /\ \A p \in CallPositions("sendBundle") :
       /\ bundlePc # "signAll"
       /\ \E q \in 1..(p - 1) : bundleCalls[q] = "signAllTransactions"
  /\ (bundlePc \in {"returned", "threw", "catchCleanup"} /\ tipTx = None) =>
       /\ CallPositions("signAllTransactions") = {}
       /\ CallPositions("sendBundle") = {}

\* C10 witness: the signed batch was posted and the relay is being polled
C10_Witness ==
  /\ bundlePc = "getBundleStatuses"
  /\ Len(bundlesSent) = 1
  /\ Len(signRequests) = 1
  /\ elapsed > 0

(***************************************************************************)
(* waitForBundleConfirmation.                                              *)
(***************************************************************************)
\* execute returned from a run in which the poll loop was entered
PollReturned == BundleReturned /\ bundleId \in BundleIds

TimeoutMessage == "Bundle confirmation timeout"

\* the first status of the tick's answer is a status, not null or missing
HasStatus == Len(statuses) > 0 /\ "confirmation_status" \in DOMAIN statuses[1]

\* C11: a result of the poll loop is success=true only with a status of
\* this tick that is confirmed or finalized, is a failure other than the
\* timeout only with a status of this tick whose err is set, and always
\* carries the bundle id the loop was given.
C11_PollResults ==
  PollReturned =>
    /\ execResult.bundleId = bundleId
    /\ execResult.success =>
         /\ HasStatus
         /\ statuses[1].confirmation_status \in {"confirmed", "finalized"}
    /\ (~execResult.success /\ execResult.error # TimeoutMessage) =>
         /\ HasStatus
         /\ statuses[1].err # NoErr

\* C11 witness: the loop returned the failure of a status whose err is set
C11_Witness ==
  /\ PollReturned
  /\ ~execResult.success
  /\ execResult.error = "\"InsufficientFunds\""
  /\ statuses[1].err = "InsufficientFunds"

\* C12: the loop returns either the timeout failure, with the timeout
\* elapsed, or the result of a terminal status, whose error is never the
\* timeout message; the JSON encoding of no err payload is that message.
C12_TimeoutMessage ==
  /\ PollReturned =>
       \/ /\ execResult = [bundleId |-> bundleId, success |-> FALSE,
                           error |-> TimeoutMessage]
          /\ elapsed >= TimeoutMs
       \/ /\ execResult # [bundleId |-> bundleId, success |-> FALSE,
                           error |-> TimeoutMessage]
          /\ HasStatus
          /\ \/ statuses[1].confirmation_status \in {"confirmed", "finalized"}
             \/ statuses[1].err # NoErr
          /\ ~execResult.success => execResult.error # TimeoutMessage
  /\ \A err \in BundleErrs \ {NoErr} : JsonOfErr(err) # TimeoutMessage

\* C12 witness: the loop timed out on a relay whose last answer was a
\* status that is not terminal
C12_Witness ==
  /\ PollReturned
  /\ ~execResult.success
  /\ execResult.error = TimeoutMessage
  /\ lastTick = [tick |-> "not terminal"]

PollPcs == {"getBundleStatuses", "pause", "inflight", "interval"}

\* C13: a poll tick starts only while less than timeoutMs has elapsed, and
\* a run that is polling always comes to return a result.
C13_PollTerminates ==
  /\ [](bundlePc = "getBundleStatuses" => elapsed < TimeoutMs)
  /\ (bundlePc \in PollPcs) ~> BundleReturned

\* C13 witness: the loop returned the timeout after ticks whose status
\* queries threw
C13_Witness ==
  /\ PollReturned
  /\ ~execResult.success
  /\ execResult.error = TimeoutMessage
  /\ elapsed >= TimeoutMs
  /\ lastTick \in { TickThrew(e) : e \in StatusQueryErrors }

\* C14 (as claimed): a tick on which statuses[0] is null or missing ends
\* without a result and the loop waits for the next tick; a tick that
\* follows such a tick and on which getBundleStatuses reported the bundle
\* confirmed or finalized returns success=true.
C14_NoRecordKeepsPolling_Claim ==
  [][ /\ (bundlePc = "inflight" /\ ~StatusTruthy(FirstStatus(statuses))) =>
           /\ bundlePc' = "interval"
           /\ execResult' = None
           /\ hookResult' = hookResult
      /\ ( /\ bundlePc = "inflight"
           /\ lastTick = [tick |-> "no record"]
           /\ StatusTruthy(FirstStatus(statuses))
           /\ FirstStatus(statuses).confirmation_status \in {"confirmed", "finalized"}) =>
           /\ bundlePc' = "returned"
           /\ execResult' = [bundleId |-> bundleId, success |-> TRUE] ]_vars

\* C15 (as claimed): when the status query of the last tick threw, the
\* result the call returns is a failure whose error is that error's message.
C15_PollErrorReflected_Claim ==
  (PollReturned /\ lastTick \in { TickThrew(e) : e \in StatusQueryErrors }) =>
    /\ ~execResult.success
    /\ execResult.error = ErrorMessage(lastTick.error)

(***************************************************************************)
(* Sequential executor: faults, retries, on-chain rejection.               *)
(***************************************************************************)
SeqPcs == {"loop", "build", "sign", "send", "blockhash", "confirm", "returned"}

MaxRetries == 3

\* the calls of an operation for the builder at an index
Attempts(op, n) ==
  { p \in DOMAIN calls :
      calls[p].op = op /\ calls[p].ev = "call" /\ calls[p].index = n }

\* C17 (as claimed): an entry that failed on an error thrown by the
\* broadcast had its broadcast attempted again before it failed, and the
\* broadcast of an entry is attempted at most 1 + 3 times.
C17_SubmissionRetried_Claim ==
  /\ \A n \in DOMAIN transactionBuilders :
       Cardinality(Attempts("send", n)) <= 1 + MaxRetries
  /\ \A p \in DOMAIN calls :
       (calls[p].op = "send" /\ calls[p].ev = "throw"
          /\ results[calls[p].index].status = "failed") =>
         Cardinality(Attempts("send", calls[p].index)) > 1

\* C18: build, sign and broadcast are each called at most once per builder
\* in a run; a confirmation that reports an err is the last call of the
\* run, which returns a failure at that index whose entry is failed with
\* an error that carries the JSON of the payload.
C18_OnChainRejectionTerminal ==
  /\ \A n \in DOMAIN transactionBuilders : \A op \in {"build", "sign", "send"} :
       Cardinality(Attempts(op, n)) <= 1
  /\ \A p \in DOMAIN calls :
       (calls[p].op = "confirm" /\ calls[p].ev = "return" /\ calls[p].val # NoErr) =>
         /\ p = Len(calls)
         /\ Returned
         /\ ~seqResult.success
         /\ seqResult.failedAtIndex = calls[p].index
         /\ results[calls[p].index].status = "failed"
         /\ results[calls[p].index].error =
              "Transaction failed on-chain: " \o JsonStringify(calls[p].val)
         /\ seqResult.error = results[calls[p].index].error

\* C18 witness: the chain rejected the transaction of the second builder
C18_Witness ==
  /\ Returned
  /\ Len(calls) > 0
  /\ calls[Len(calls)].op = "confirm"
  /\ calls[Len(calls)].ev = "return"
  /\ calls[Len(calls)].index = 1
  /\ calls[Len(calls)].val = "InsufficientFunds"
  /\ results[0].status = "confirmed"
  /\ results[1].status = "failed"

(***************************************************************************)
(* The hooks: wallet check and failure paths.                              *)
(***************************************************************************)
\* C19: a hook invoked without the capabilities it checks for (publicKey,
\* signAllTransactions and signTransaction for the two execute operations,
\* publicKey and signAllTransactions for submitBundle) has returned
\* success=false with the error 'Wallet not connected' and has called no
\* builder, signer, RPC method or relay method.
C19_WalletNotConnected ==
  /\ (bundlePc \notin {"unmounted", "idle"}
        /\ ~({"publicKey", "signAllTransactions", "signTransaction"} \subseteq wallet)) =>
       /\ bundlePc = "returned"
       /\ execResult = [bundleId |-> "", success |-> FALSE,
                        error |-> "Wallet not connected"]
       /\ bundleCalls = << >>
       /\ signRequests = << >>
       /\ bundlesSent = << >>
  /\ (seqHookPc \notin {"unmounted", "idle"}
        /\ ~({"publicKey", "signAllTransactions", "signTransaction"} \subseteq wallet)) =>
       /\ seqHookPc = "returned"
       /\ seqExecResult = [success |-> FALSE, transactions |-> << >>,
                           error |-> "Wallet not connected"]
       /\ seqHookCalls = << >>
       /\ calls = << >>
       /\ seqPc = "idle"
  /\ (jitoPc \notin {"unmounted", "idle"}
        /\ ~({"publicKey", "signAllTransactions"} \subseteq wallet)) =>
       /\ jitoPc = "returned"
       /\ jitoResult = [bundleId |-> "", success |-> FALSE,
                        error |-> "Wallet not connected"]
       /\ jitoCalls = << >>
       /\ jitoBatches = << >>

\* C19 witness: submitBundle returned for a wallet that has a public key
\* but cannot sign a batch
C19_Witness ==
  /\ jitoPc = "returned"
  /\ wallet = {"publicKey", "signTransaction"}
  /\ jitoResult.error = "Wallet not connected"
  /\ jitoState.status = "error"

\* C20 (as claimed): whenever the bundle execute or the sequential execute
\* has returned success=false, the progress is at step 'error' with a
\* message that carries the error, and the hook's result is the returned one.
C20_FailureSetsErrorProgress_Claim ==
  /\ (bundlePc = "returned" /\ ~execResult.success) =>
       /\ progress.step = "error"
       /\ progress.message \in { "Bundle failed: " \o execResult.error,
                                 "Error: " \o execResult.error }
       /\ hookResult = execResult
  /\ (seqHookPc = "returned" /\ ~seqExecResult.success) =>
       /\ seqProgress.step = "error"
       /\ seqProgress.message \in
            { "Error: " \o seqExecResult.error }
            \cup { "Failed at " \o BuilderName(n) \o ": " \o seqExecResult.error :
                     n \in 0..2 }
       /\ seqHookResult = seqExecResult

(***************************************************************************)
(* Sequential executor: the ledger and its snapshots.                      *)
(***************************************************************************)
\* a ledger has one entry per builder, entry n with index n and the name of
\* builder n
ShapedLikeBuilders(ledger) ==
  /\ DOMAIN ledger = DOMAIN transactionBuilders
  /\ \A n \in DOMAIN ledger :
       /\ {"index", "name", "status"} \subseteq DOMAIN ledger[n]
       /\ ledger[n].index = n
       /\ ledger[n].name = transactionBuilders[n]

\* C21: the ledger, every snapshot passed to onProgress and the final result
\* have exactly one entry per builder, entry n with index n and the name of
\* builder n: no entry is added, removed or reordered.
C21_LedgerShape ==
  /\ ShapedLikeBuilders(results)
  /\ \A p \in DOMAIN snapshots : ShapedLikeBuilders(snapshots[p])
  /\ Returned => ShapedLikeBuilders(seqResult.transactions)

\* C21 witness: a run of three builders that returned after fifteen snapshots
C21_Witness ==
  /\ Returned
  /\ NumBuilders = 3
  /\ Len(snapshots) = 15
  /\ Cardinality(DOMAIN seqResult.transactions) = 3

\* the entries in which two ledgers differ
Differing(a, b) == { n \in DOMAIN a : a[n] # b[n] }

OrderedSteps ==
  << "building_swap", "building_short", "building_transfer", "building_tip",
     "signing", "submitting", "confirming", "success" >>

\* the place of a step in that order; error ends a run as success does
StepRank(step) ==
  IF step = "error" THEN Len(OrderedSteps)
  ELSE CHOOSE r \in DOMAIN OrderedSteps : OrderedSteps[r] = step

\* the steps setProgress was given, in order
StepsShown == [p \in DOMAIN progressHistory |-> progressHistory[p].step]

\* C23 (as claimed): a run that returns success has shown building_swap,
\* building_short, building_transfer, building_tip, signing, submitting,
\* confirming and success, in that order, with confirming shown while the
\* relay is polled; in any run the step never moves backward, and error is
\* the only other step a run ends with.
C23_StepOrder_Claim ==
  /\ \A p \in DOMAIN StepsShown : StepsShown[p] \in
       { OrderedSteps[r] : r \in DOMAIN OrderedSteps } \cup {"error"}
  /\ \A p \in 1..(Len(StepsShown) - 1) :
       /\ StepRank(StepsShown[p]) <= StepRank(StepsShown[p + 1])
       /\ StepsShown[p] \notin {"success", "error"}
  /\ bundlePc \in PollPcs => progress.step = "confirming"
  /\ (BundleReturned /\ execResult.success) =>
       /\ \A r \in DOMAIN OrderedSteps : \E p \in DOMAIN StepsShown :
            StepsShown[p] = OrderedSteps[r]
       /\ progress.step = "success"
  /\ (BundleReturned /\ wallet = Capabilities) => progress.step \in {"success", "error"}

\* C24 (as claimed): once a progress update has carried the expected swap
\* output, every later update of the run, the final success or error update
\* included, carries the same swapExpectedOutput.
C24_ExpectedOutputCarried_Claim ==
  \A p \in DOMAIN progressHistory : \A q \in DOMAIN progressHistory :
    (p < q /\ "swapExpectedOutput" \in DOMAIN progressHistory[p]) =>
      /\ "swapExpectedOutput" \in DOMAIN progressHistory[q]
      /\ progressHistory[q].swapExpectedOutput = progressHistory[p].swapExpectedOutput

(***************************************************************************)
(* submitAndConfirmBundle: the request to the relay.                       *)
(***************************************************************************)
\* the array submitAndConfirmBundle was called with: what the wallet returned
SubmittedInput == SignAll(signRequests[1])

\* C25: a call of submitAndConfirmBundle posts at most one sendBundle
\* request, also when the relay rejects it, the bundle fails on-chain or the
\* wait times out; the request carries the encoded form of every transaction
\* of the input array, as many as the array has and in its order.
C25_OneRequestInInputOrder ==
  /\ Cardinality(CallPositions("sendBundle")) <= 1
  /\ Len(bundlesSent) = Cardinality(CallPositions("sendBundle"))
  /\ \A p \in DOMAIN bundlesSent :
       LET params == EncodedTransactions(bundlesSent[p]) IN
         /\ Len(signRequests) = 1
         /\ bundlesSent[p] = SubmittedInput
         /\ Len(params) = Len(SubmittedInput)
         /\ \A n \in DOMAIN SubmittedInput :
              FromBase64(params[n]) = Serialize(SubmittedInput[n])

\* C25 witness: a call that posted a batch of two transactions built on
\* different blockhashes and returned the timeout failure
C25_Witness ==
  /\ BundleReturned
  /\ Len(bundlesSent) = 1
  /\ Len(bundlesSent[1]) = 2
  /\ bundlesSent[1][1].recentBlockhash # bundlesSent[1][2].recentBlockhash
  /\ ~execResult.success
  /\ execResult.error = TimeoutMessage

(***************************************************************************)
(* isJitoCompatible: properties.                                           *)
(***************************************************************************)
SizeReason(t) ==
  "Transaction size (" \o ToString(t.size) \o " bytes) exceeds 1232 byte limit"

UsesLookups(t) == t.version = "v0" /\ t.lookups > 0

\* C26: isJitoCompatible returns compatible=false with a reason for a
\* transaction that serializes to more than 1232 bytes (the size reason, also
\* when it has lookups too) or whose version-0 message has lookups, returns
\* compatible=true for one of at most 1232 bytes without lookups that
\* deserializes again, always returns, and leaves the transaction as it was.
C26_CompatibilityGuard ==
  /\ [](compatibility # None =>
          LET t == candidate
              r == compatibility
          IN /\ DOMAIN r \in { {"compatible"}, {"compatible", "reason"} }
             /\ ~r.compatible <=> "reason" \in DOMAIN r
             /\ (t.serializable /\ t.size > SizeLimit) =>
                  ~r.compatible /\ r.reason = SizeReason(t)
             /\ (t.serializable /\ UsesLookups(t)) =>
                  /\ ~r.compatible
                  /\ t.size <= SizeLimit => r.reason = "Transaction uses Address Lookup Tables"
             /\ (/\ t.serializable
                 /\ t.size <= SizeLimit
                 /\ ~UsesLookups(t)
                 /\ t.signatures = t.numRequiredSignatures) => r.compatible)
  /\ [][candidate' = candidate]_vars

\* C26 witness: a version-0 transaction over the ceiling that has lookups
\* too was refused for its size
C26_Witness ==
  /\ compatibility # None
  /\ candidate.size > SizeLimit
  /\ candidate.lookups = MaxLookups
  /\ candidate.serializable
  /\ compatibility.reason = SizeReason(candidate)

(***************************************************************************)
(* The validation before a bundle is posted.                               *)
(***************************************************************************)
Range(sequence) == { sequence[p] : p \in DOMAIN sequence }

\* the batches useJitoBundle.submitBundle has posted to the relay
JitoSent ==
  IF \E p \in DOMAIN jitoCalls : jitoCalls[p] = "sendBundle"
    THEN << jitoBatches[Len(jitoBatches)] >>
    ELSE << >>

\* C27 (as claimed): every batch posted to the relay, by the bundle execute
\* or by useJitoBundle.submitBundle, holds only transactions of at most 1232
\* bytes without lookup tables; a signed batch with a violation is answered
\* with a failure that has an empty bundleId and names the lowest violating
\* index.
C27_ValidatedBeforeSend_Claim ==
  /\ \A p \in DOMAIN bundlesSent : FirstInvalid(bundlesSent[p]) = -1
  /\ \A p \in DOMAIN JitoSent : FirstInvalid(JitoSent[p]) = -1
  /\ (BundleReturned /\ Submitting \in Range(progressHistory)
        /\ FirstInvalid(SignAll(signRequests[1])) # -1) =>
       execResult = ValidationFailure(SignAll(signRequests[1]),
                                      FirstInvalid(SignAll(signRequests[1])))

(***************************************************************************)
(* Sequential executor: what the callback can reach.                       *)
(***************************************************************************)
\* the ledger the executor's own updates have produced: the last snapshot
\* as it was handed over, or the initial ledger before the first update
LedgerHandedOver ==
  IF snapshots = << >> THEN InitialLedger(transactionBuilders)
  ELSE snapshots[Len(snapshots)]

\* C30 (as claimed): whatever the callback does to the snapshot array or to
\* its entries, the executor's ledger stays what its own updates made it,
\* each later snapshot differs from the one before in the updated entry only,
\* and the transactions of the result are that ledger.
C30_SnapshotReadOnly_Claim ==
  /\ results = LedgerHandedOver
  /\ \A p \in 1..(Len(snapshots) - 1) :
       Cardinality(Differing(snapshots[p], snapshots[p + 1])) = 1
  /\ Returned => seqResult.transactions = LedgerHandedOver

(***************************************************************************)
(* The caller of a hook: reset, and execute called again.                  *)
(***************************************************************************)
\* what a run consists of besides the three states reset sets: its position,
\* its locals, the calls it has made and the result it returned
RunOfBundle ==
  << bundlePc, transactions, driftClient, builtVars, caught, effectVars,
     pollVars, execResult >>
RunOfSequential ==
  << seqHookPc, seqPc, i, tx, signedTx, signature, results, calls, snapshots,
     seqResult, seqDriftClient, seqCaught, seqHookCalls, seqExecResult >>

\* C29: reset called while a run is in flight calls no builder, signer or
\* network operation and leaves the run where it is; at every await the run
\* is suspended at after such a reset the settlement of the awaited call is
\* still taken as the next step of the run (for the bundle execute: up to
\* the poll of the relay), and the result returned to the caller of execute
\* is the one the run produced.
C29_ResetDoesNotAbort ==
  /\ [][(Reset \/ SeqReset) =>
          UNCHANGED << RunOfBundle, RunOfSequential >>]_<< RunOfBundle, RunOfSequential >>
  /\ []((resetInFlight /\ seqHookPc \in SeqAwaitPcs) => ENABLED NextSeqHook)
  /\ []((resetInFlight /\ bundlePc \in AwaitPcs \ {"getBundleStatuses"}) =>
          ENABLED NextBundleCall)
  /\ []((seqHookPc = "returned" /\ seqPc = "returned" /\ seqCaught = None) =>
          seqExecResult = seqResult)
  /\ [](seqHookPc = "threw" => seqCaught # None)

\* C29 witness: reset was called when the executor had made two updates, and
\* the executor went on to confirm all three transactions
C29_Witness ==
  /\ resetInFlight
  /\ seqHookPc = "executor"
  /\ seqShown = 2
  /\ seqPc = "returned"
  /\ seqResult.success
  /\ Len(snapshots) = 15
  /\ seqIsExecuting = FALSE

\* C28 (as claimed): while a call of execute has not returned, a further call
\* of execute on the same hook starts no builder, no signing and no
\* submission: after the further call, the calls made are those the earlier
\* call had made.
C28_NoConcurrentRuns_Claim ==
  \A p \in DOMAIN earlier :
    \A q \in DOMAIN bundleCalls :
      q > earlier[p].calls =>
        bundleCalls[q] \notin AllBuilders \cup {"signAllTransactions", "sendBundle"}

(***************************************************************************)
(* Blockhashes of the sequential flow.                                     *)
(***************************************************************************)
\* the blockhashes obtained for the transaction of an index
FetchedFor(n) == { f \in DOMAIN fetched : fetched[f].index = n }

\* C31: in a run of the sequential hook the blockhash of the transaction
\* build(n) returned is the one obtained during build(n), after build(n) was
\* called and, for n > 0, after the confirmation of transaction n-1 returned
\* without an error; one blockhash is obtained per transaction built, and no
\* builder is passed a blockhash.
C31_FreshBlockhashPerTransaction ==
  seqHookPc # "unmounted" =>
    /\ \A n \in DOMAIN transactionBuilders :
         HandedOver(transactionBuilders[n]) = Undefined
    /\ \A p \in DOMAIN calls :
         (calls[p].op = "build" /\ calls[p].ev = "return") =>
           LET n == calls[p].index IN
             /\ Cardinality(FetchedFor(n)) = 1
             /\ \A f \in FetchedFor(n) :
                  /\ fetched[f].blockhash = calls[p].val.recentBlockhash
                  /\ fetched[f].at = p - 1
                  /\ IsCall(calls[fetched[f].at], "build")
                  /\ calls[fetched[f].at].index = n
                  /\ n > 0 => ReturnedBefore(fetched[f].at, "confirm", n - 1, NoErr)
    /\ \A f \in DOMAIN fetched :
         \E p \in DOMAIN calls :
           calls[p].op = "build" /\ calls[p].ev = "return"
             /\ calls[p].index = fetched[f].index

\* C31 witness: the three transactions were built, each on the blockhash
\* obtained during its build, the second on another than the first
C31_Witness ==
  /\ seqHookPc = "executor"
  /\ Len(fetched) = 3
  /\ fetched[1].blockhash = "hashA"
  /\ fetched[2].blockhash = "hashB"
  /\ fetched[2].from = "getLatestBlockhash"
  /\ fetched[1].from = "aggregator"
  /\ seqPc = "returned"
  /\ seqResult.success

(***************************************************************************)
(* The base64 round trip.                                                  *)
(***************************************************************************)
\* a transaction serialize() encodes and deserialize() accepts
ValidTransaction(t) == t.serializable /\ t.signatures = t.numRequiredSignatures

\* serialize, base64-encode, base64-decode
RoundTripBytes(t) == FromBase64(ToBase64(Serialize(t)))

C33_ConfirmedTickReturns_Claim ==
  [][(bundlePc = "inflight" /\ IsConfirmed(FirstStatus(statuses))) =>
       /\ bundlePc' = "returned"
       /\ execResult' # None
       /\ execResult'.success]_vars

\* C35: when the checks of a tick are reached, a status that is confirmed or
\* finalized ends the call with success=true whether or not its err is set,
\* and the call ends with the failure made of a status' err only for a
\* status that is neither confirmed nor finalized and whose err is set.
C35_ConfirmationBeforeError ==
  [][InflightResolves =>
       LET st == FirstStatus(statuses) IN
         /\ IsConfirmed(st) =>
              /\ bundlePc' = "returned"
              /\ execResult' = [bundleId |-> bundleId, success |-> TRUE]
         /\ (bundlePc' = "returned" /\ ~execResult'.success) =>
              /\ StatusTruthy(st)
              /\ ~IsConfirmed(st)
              /\ Truthy(st.err)
              /\ execResult' = [bundleId |-> bundleId, success |-> FALSE,
                                error |-> JsonOfErr(st.err)]
         /\ (StatusTruthy(st) /\ ~IsConfirmed(st) /\ Truthy(st.err)) =>
              /\ bundlePc' = "returned"
              /\ ~execResult'.success]_vars

\* C35 witness: a status that is finalized and has an err payload ended the
\* call with success=true
C35_Witness ==
  /\ bundlePc = "returned"
  /\ execResult # None
  /\ execResult.success
  /\ statuses = << [confirmation_status |-> "finalized", err |-> "InsufficientFunds"] >>

(***************************************************************************)
(* useJitoBundle.submitBundle and the poll of the relay.                   *)
(***************************************************************************)
\* C34 (as claimed): submitBundle reports 'Bundle confirmation timeout' only
\* after the relay was asked for the status of the bundle at least once, so
\* that a bundle the relay reports confirmed within the timeout ends in
\* success=true and the state 'success'.
C34_PolledBeforeTimeout_Claim ==
  (/\ jitoResult # None
   /\ ~jitoResult.success
   /\ jitoResult.error = "Bundle confirmation timeout") =>
     "getBundleStatuses" \in Range(jitoCalls)

(***************************************************************************)
(* Signatures in the ledger of a sequential run.                           *)
(***************************************************************************)
\* the positions of the call log at which the broadcast of index n returned
Broadcast(n) ==
  { p \in DOMAIN calls :
      calls[p].op = "send" /\ calls[p].ev = "return" /\ calls[p].index = n }

HasSignature(entry) == "signature" \in DOMAIN entry

\* C36: in the ledger, in every snapshot and in the result, an entry has a
\* signature exactly when the broadcast of its transaction returned, and it is
\* the signature the broadcast returned; an entry that is pending, building,
\* signing or submitting, or that failed before its broadcast returned, has
\* none; from one ledger to the next a signature stays as it is; there are as
\* many entries with a signature as broadcasts that returned.
C36_SignatureIffBroadcast ==
  LET latest == LedgerHistory[Len(LedgerHistory)] IN
    /\ latest = results
    /\ \A n \in DOMAIN latest :
         /\ HasSignature(latest[n]) <=> Broadcast(n) # {}
         /\ HasSignature(latest[n]) =>
              /\ \A p \in Broadcast(n) : calls[p].val = latest[n].signature
              /\ latest[n].status \in {"confirming", "confirmed", "failed"}
         /\ latest[n].status \in {"confirming", "confirmed"} => HasSignature(latest[n])
    /\ Cardinality({ n \in DOMAIN latest : HasSignature(latest[n]) })
         = Cardinality(UNION { Broadcast(n) : n \in DOMAIN latest })
    /\ \A k \in 1..(Len(LedgerHistory) - 1) :
         \A n \in DOMAIN LedgerHistory[k] :
           HasSignature(LedgerHistory[k][n]) =>
             /\ HasSignature(LedgerHistory[k + 1][n])
             /\ LedgerHistory[k + 1][n].signature = LedgerHistory[k][n].signature

\* C36 witness: the first transaction is confirmed, the second was broadcast
\* and then rejected on-chain and keeps its signature, the third is pending
C36_Witness ==
  /\ Returned
  /\ NumBuilders = 3
  /\ results[0].status = "confirmed" /\ HasSignature(results[0])
  /\ results[1].status = "failed" /\ HasSignature(results[1])
  /\ results[1].signature = "sig2"
  /\ ~HasSignature(results[2])
  /\ seqResult.transactions = results

(***************************************************************************)
(* The bundleId of the result of the bundle execute.                       *)
(***************************************************************************)
\* sendBundle returned the id of the bundle
RelayAccepted == bundleId \in BundleIds

\* C37: the result the bundle execute returns has bundleId '' exactly when
\* sendBundle never returned an id (no wallet, a builder or the wallet threw,
\* the validation refused the batch, sendBundle threw), and such a result is
\* a failure; once sendBundle returned an id, every result (success, on-chain
\* error, timeout) carries that id.
C37_BundleIdIffAccepted ==
  (BundleReturned /\ execResult # None) =>
    /\ execResult.bundleId = "" <=> ~RelayAccepted
    /\ RelayAccepted => execResult.bundleId = bundleId
    /\ ~RelayAccepted => ~execResult.success
    /\ RelayAccepted <=> bundlesSent # << >> /\ caught = None /\ execResult.bundleId \in BundleIds
    /\ hookResult = execResult

\* C37 witness: the relay accepted the bundle as bundleB and the poll timed
\* out: the result carries bundleB
C37_Witness ==
  /\ BundleReturned
  /\ execResult = TimeoutResult("bundleB")
  /\ bundleId = "bundleB"

(***************************************************************************)
(* Cleanup of the protocol client.                                         *)
(***************************************************************************)
\* the calls of cleanupDriftClient of a call log
Cleanups(log) == { p \in DOMAIN log : log[p] = "cleanupDriftClient" }

\* initializeDriftClient returned the client during the run
BundleClientInitialised == "buildDriftShortTransaction" \in Range(bundleCalls)
SeqClientInitialised == seqPc # "idle"

\* C38 (as claimed): a run of either execute that initialised the protocol
\* client ends with execute returning, the client cleaned up by exactly one
\* call of cleanupDriftClient; a run that did not initialise it makes no
\* such call.
C38_CleanupExactlyOnce_Claim ==
  /\ bundlePc \in {"returned", "threw"} =>
       IF BundleClientInitialised
         THEN bundlePc = "returned" /\ Cardinality(Cleanups(bundleCalls)) = 1
         ELSE Cleanups(bundleCalls) = {}
  /\ seqHookPc \in {"returned", "threw"} =>
       IF SeqClientInitialised
         THEN seqHookPc = "returned" /\ Cardinality(Cleanups(seqHookCalls)) = 1
         ELSE Cleanups(seqHookCalls) = {}

(***************************************************************************)
(* isExecuting, result and progress of the two execute operations.         *)
(***************************************************************************)
\* C39 (as claimed): in both hooks isExecuting is true exactly while a call
\* of execute that passed the wallet check has not returned, and at the
\* moment execute returns isExecuting is false, the hook's result is the
\* returned result and progress.step is 'success' exactly for a result with
\* success=true.
C39_ExecutingWhileInFlight_Claim ==
  /\ [](bundlePc # "unmounted" => (isExecuting <=> bundlePc \in AwaitPcs \cup {"threw"}))
  /\ [](seqHookPc # "unmounted" =>
          (seqIsExecuting <=> seqHookPc \in SeqAwaitPcs \cup {"threw"}))
  /\ [][(bundlePc # "returned" /\ bundlePc' = "returned") =>
          /\ ~isExecuting'
          /\ hookResult' = execResult'
          /\ progress'.step = "success" <=> execResult'.success]_vars
  /\ [][(seqHookPc # "returned" /\ seqHookPc' = "returned") =>
          /\ ~seqIsExecuting'
          /\ seqHookResult' = seqExecResult'
          /\ seqProgress'.step = "success" <=> seqExecResult'.success]_vars

\* C40: two calls of buildJupiterSwapTransaction against the same prices and
\* the same answers of the aggregator that differ only in the amount send
\* the same quote request and end the same way: with the same transaction,
\* expected output, quote and calculated amount, or with the same Error
C40_AmountIgnored ==
  \A a, b \in swapBuilds :
    a.slippageBps = b.slippageBps =>
      /\ a.quoteRequests = b.quoteRequests
      /\ a.outcome = b.outcome

\* two calls with different amounts and the same slippage have returned a
\* transaction, for a quote of an amount that neither of them passed
C40_Witness ==
  \E a, b \in swapBuilds :
    /\ a.amount # b.amount
    /\ a.slippageBps = b.slippageBps
    /\ "transaction" \in DOMAIN a.outcome
    /\ "transaction" \in DOMAIN b.outcome
    /\ a.outcome.expectedOutput.num > 0
    /\ \A c \in {a, b} : a.quoteRequests[1].amount # ToBaseUnits(c.amount, "SOL")

====
